---- MODULE Spec2Model ----
(***************************************************************************)
(* The data-access layer of the restaurant management system               *)
(* (js/menu.js: MenuService and OrdersService).  Every service method is   *)
(* an async function that awaits a sequence of calls to a remote row       *)
(* store; each awaited store call is one atomic step of the model, so that *)
(* calls of several clients interleave exactly at the await points.        *)
(***************************************************************************)
EXTENDS Integers, Sequences, FiniteSets, TLC

\* ------------------------------------------------------------------ bounds
\* largest id the store assigns in orders
MaxOrderId == 3
\* largest id the store assigns in order_items
MaxOrderItemId == 4
\* longest orderData.order_items of a createOrder call
MaxOrderItems == 2
\* service calls started in one run
MaxCalls == 2
\* longest variants list of a saveMenuItemVariants call
MaxVariants == 2
\* largest id the store assigns in menu_item_variants
MaxVariantId == 5
\* longest list of add-on group ids a caller passes
MaxGroups == 1
\* highest id the store assigns in addons
MaxAddonId == 4
\* number of the highest id the store assigns in addon_groups
MaxGroupId == 3
\* number of calls in a run of all write operations
MaxWrites == 1
\* number of the highest id the store assigns in categories
MaxCategoryId == 2
\* number of the highest id the store assigns in menu_items
MaxItemId == 3

Clients == {"c1", "c2"}
ClientRank == [c1 |-> 1, c2 |-> 2]
OrderStatuses == {"pending", "completed"}
Restaurants == {"r1"}
ItemPrices == {7, 9}
\* the restaurants categories are asked for: r1 is the one the calls write to,
\* r2 has categories of its own, r3 has none
VariantNames == {"small", "large"}
\* the menu items the calls are about; the store also has rows of another item
MenuItemIds == {"m1"}
NoSave == [item |-> "none"]
NoUpdate == [variant |-> 0]
AddonGroupIds == {"g1", "g2"}
Categories == {"cat1"}
CategoryNames == {"mains", "drinks"}
ItemNames == {"pizza", "pasta"}
AddonNames == {"cheese", "bacon"}

\* the structured errors of the row store
StoreUnavailable == "StoreUnavailable"
\* the error of .single() when the query matches no row (PostgREST PGRST116)
NotFound == "PGRST116"
\* the message of the Error deleteOrder builds itself
OrderNotFound == "Order not found"
NoError == "none"

VARIABLES
    orders,             \* table orders: rows [id, restaurant_id, status, order_number]
    order_items,        \* table order_items: rows [id, order_id, menu_item_id, item_price]
    order_item_addons,  \* table order_item_addons: rows [id, order_item_id]
    nextOrderId,        \* next id the store assigns in orders
    nextOrderItemId,    \* next id the store assigns in order_items
    menu_item_variants, \* table menu_item_variants
    nextVariantId,      \* next id the store assigns in menu_item_variants
    lastSave,           \* history: the successful saveMenuItemVariants call whose
                        \* writes were the last ones to menu_item_variants
    categories,         \* table categories: rows [id, restaurant_id, name, display_order]
    nextCategoryId,     \* number of the next id the store assigns in categories
    menu_items,         \* table menu_items: rows [id, category_id, created_at, name, price,
                        \*                         is_available]
    nextItemId,         \* number of the next id the store assigns in menu_items
    menu_item_addons,   \* link table menu_item_addons: rows [menu_item_id, addon_group_id]
    addon_groups,       \* table addon_groups: rows [id, name]
    addons,             \* table addons: rows [id, addon_group_id]
    nextAddonId,        \* next id the store assigns in addons
    nextGroupId,        \* number of the next id the store assigns in addon_groups
    lastUpdate,         \* history: the last updateVariantAddonGroups that succeeded
    calls,              \* per client: the service call in progress
    started,            \* number of service calls started so far
    everInterleaved,    \* history: two service calls have overlapped
    auth_users,         \* the identity provider's users: rows [id, email]
    restaurants         \* table restaurants: rows [id, user_id, name, owner_name, email]

vars == <<orders, order_items, order_item_addons, nextOrderId, nextOrderItemId,
          menu_item_variants, nextVariantId, lastSave, menu_items,
          menu_item_addons, addon_groups, addons, nextAddonId, nextGroupId,
          lastUpdate, categories, nextCategoryId, nextItemId, calls, started,
          everInterleaved, auth_users, restaurants>>

orderVars == <<orders, order_items, order_item_addons, nextOrderId, nextOrderItemId>>
menuVars == <<menu_item_variants, nextVariantId, lastSave>>
catalogVars == <<menu_items, menu_item_addons, addon_groups, addons, nextAddonId,
                 nextGroupId, lastUpdate, categories, nextCategoryId, nextItemId>>
\* the bookkeeping a step inside a call leaves alone
callVars == <<started, everInterleaved>>
\* what only AuthService writes
authVars == <<auth_users, restaurants>>

\* the owners that registered before the run, and their restaurants
Owners == {[id |-> "u1", email |-> "ann@r1"], [id |-> "u2", email |-> "bob@r2"]}
OwnedRestaurants ==
    {[id |-> "r1", user_id |-> "u1", name |-> "bistro", owner_name |-> "ann",
      email |-> "ann@r1"],
     [id |-> "r2", user_id |-> "u2", name |-> "diner", owner_name |-> "bob",
      email |-> "bob@r2"]}

\* ------------------------------------------------------------ row store
\* the tables as one value, to compare the store before and after a call
Store == [orders |-> orders, order_items |-> order_items,
          order_item_addons |-> order_item_addons,
          menu_item_variants |-> menu_item_variants,
          menu_items |-> menu_items, menu_item_addons |-> menu_item_addons,
          addon_groups |-> addon_groups, addons |-> addons,
          categories |-> categories]

\* .eq(column, value) on a set of rows
Eq(rows, col, val) == {r \in rows : r[col] = val}

\* .in(column, values) on a set of rows
In(rows, col, vals) == {r \in rows : r[col] \in vals}

\* a variant that reports no error when no row matches
SingleErrorNever(rows) == NoError

\* .single(): the row when exactly one matches, else the error PGRST116
SingleError(rows) == IF Cardinality(rows) = 1 THEN NoError ELSE NotFound

\* what a store call answers: it worked, or the store failed (nothing written)
StoreOutcomes == {NoError, StoreUnavailable}

\* ------------------------------------------------------------- the calls
Idle == [op |-> "idle", pc |-> "idle"]

IsActive(c) == calls[c].op # "idle"
IsDone(c) == calls[c].pc = "done"
Running(c) == IsActive(c) /\ ~IsDone(c)

\* one more store call written to the call's trace
Logged(call, verb, table, resp) ==
    Append(call.log, [verb |-> verb, table |-> table, resp |-> resp])

\* a step of client c: every other call that has not returned yet has now
\* been overlapped by it
Overlap(c, new) ==
    [d \in Clients |->
        IF d = c THEN new
        ELSE IF IsActive(d) THEN [calls[d] EXCEPT !.alone = FALSE]
        ELSE calls[d]]

\* the catch block: log and rethrow the error unchanged
Reject(call, err) == [call EXCEPT !.pc = "done", !.outcome = "rejected", !.err = err]

Resolve(call) == [call EXCEPT !.pc = "done", !.outcome = "resolved"]

OthersRunning(c) == \E d \in Clients \ {c} : Running(d)

\* a client starts its next call when its last one is finished (it has taken
\* the result by then); a new call goes to the first such client, and the
\* number of calls of a run is bounded
CanStart(c) ==
    /\ ~Running(c)
    /\ \A d \in Clients : Running(d) \/ ClientRank[c] <= ClientRank[d]
    /\ started < MaxCalls

\* ------------------------------------------------- OrdersService.createOrder
OrderDatas == [restaurant_id : Restaurants, status : OrderStatuses,
               order_items : UNION {[1..n -> [menu_item_id : MenuItemIds,
                                              item_price : {5}]] :
                                       n \in 0..MaxOrderItems}]

\* Date.now(): milliseconds since the epoch.  The specifications that are not
\* about order numbers create their orders in one millisecond.
OneTime == {1700000005}

DigitChars == <<"0", "1", "2", "3", "4", "5", "6", "7", "8", "9">>

\* Number.prototype.toString() of a non-negative integer: its decimal digits,
\* the most significant first, as a sequence of characters
RECURSIVE NumberToString(_)
NumberToString(n) ==
    IF n < 10 THEN <<DigitChars[n + 1]>>
    ELSE NumberToString(n \div 10) \o <<DigitChars[(n % 10) + 1]>>

\* String.prototype.slice(start) with a negative start: the last -start
\* characters, the whole string when it is shorter
SliceFrom(str, start) ==
    LET from == IF start < 0
                THEN (IF Len(str) + start > 0 THEN Len(str) + start ELSE 0)
                ELSE (IF start < Len(str) THEN start ELSE Len(str))
    IN SubSeq(str, from + 1, Len(str))

\* a variant that takes the first six digits
OrderNumberFirstSix(now) == <<"O", "R", "D">> \o SubSeq(NumberToString(now), 1, 6)

\* menu.js 487: 'ORD' + Date.now().toString().slice(-6)
OrderNumber(now) == <<"O", "R", "D">> \o SliceFrom(NumberToString(now), -6)

\* menu.js 487: the order number is computed before the first store call
CreateOrderCall(c, orderData, now) ==
    /\ CanStart(c)
    /\ calls' = Overlap(c, [op |-> "createOrder", pc |-> "insertOrder",
                            now |-> now, orderNumber |-> OrderNumber(now),
                            orderData |-> orderData, orderId |-> 0,
                            orderItemIds |-> {}, log |-> <<>>,
                            outcome |-> "pending", err |-> NoError,
                            alone |-> ~OthersRunning(c), pre |-> Store])
    /\ started' = started + 1
    /\ everInterleaved' = (everInterleaved \/ OthersRunning(c))
    /\ UNCHANGED authVars
    /\ UNCHANGED <<orderVars, menuVars, catalogVars>>

\* menu.js 489-509: insert the order row, .select().single()
CreateOrderInsertOrder(c, resp) ==
    /\ calls[c].op = "createOrder" /\ calls[c].pc = "insertOrder"
    /\ LET call == calls[c]
           log == Logged(call, "insert", "orders", resp)
       IN IF resp # NoError
          THEN /\ calls' = Overlap(c, Reject([call EXCEPT !.log = log], resp))
               /\ UNCHANGED <<orderVars>>
          ELSE /\ nextOrderId' = nextOrderId + 1
               /\ orders' = orders \cup {[id |-> nextOrderId,
                                          restaurant_id |-> call.orderData.restaurant_id,
                                          status |-> call.orderData.status,
                                          order_number |-> call.orderNumber]}
               /\ calls' = Overlap(c, [call EXCEPT !.log = log,
                                                   !.orderId = nextOrderId,
                                                   !.pc = "insertItems"])
               /\ UNCHANGED <<order_items, order_item_addons, nextOrderItemId>>
    /\ UNCHANGED authVars
    /\ UNCHANGED <<menuVars, catalogVars, callVars>>

\* a variant that reads the price of the menu item from the catalog
ItemPriceFromCatalog(item) ==
    IF \E r \in menu_items : r.id = item.menu_item_id
    THEN (CHOOSE r \in menu_items : r.id = item.menu_item_id).price
    ELSE item.item_price

\* menu.js 517: the price of an order item is the one the caller gives
ItemPrice(item) == item.item_price

\* a variant that takes the order id from somewhere else than the returned row
NewOrderItemsWrongOrder(orderId, itemSpecs, firstId) ==
    {[id |-> firstId + i - 1, order_id |-> orderId + 1,
      menu_item_id |-> itemSpecs[i].menu_item_id,
      item_price |-> ItemPrice(itemSpecs[i])] : i \in 1..Len(itemSpecs)}

\* the rows orderData.order_items.map(...) builds, with the ids the store assigns
NewOrderItems(orderId, itemSpecs, firstId) ==
    {[id |-> firstId + i - 1, order_id |-> orderId,
      menu_item_id |-> itemSpecs[i].menu_item_id,
      item_price |-> ItemPrice(itemSpecs[i])] : i \in 1..Len(itemSpecs)}

\* a variant that removes the order row again when the items insert fails
CreateOrderInsertItemsCompensating(c, resp) ==
    /\ calls[c].op = "createOrder" /\ calls[c].pc = "insertItems"
    /\ LET call == calls[c]
           itemSpecs == call.orderData.order_items
           log == Logged(call, "insert", "order_items", resp)
       IN IF Len(itemSpecs) > 0
          THEN IF resp # NoError
               THEN /\ calls' = Overlap(c, Reject([call EXCEPT !.log = log], resp))
                    /\ orders' = orders \ Eq(orders, "id", call.orderId)
                    /\ UNCHANGED <<order_items, order_item_addons, nextOrderId,
                                   nextOrderItemId>>
               ELSE /\ order_items' = order_items \cup
                            NewOrderItems(call.orderId, itemSpecs, nextOrderItemId)
                    /\ nextOrderItemId' = nextOrderItemId + Len(itemSpecs)
                    /\ calls' = Overlap(c, Resolve([call EXCEPT !.log = log]))
                    /\ UNCHANGED <<orders, order_item_addons, nextOrderId>>
          ELSE /\ resp = NoError
               /\ calls' = Overlap(c, Resolve(call))
               /\ UNCHANGED <<orderVars>>
    /\ UNCHANGED authVars
    /\ UNCHANGED <<menuVars, catalogVars, callVars>>

\* a variant that also stores the add-ons the items carry
CreateOrderInsertItemsWithAddons(c, resp) ==
    /\ calls[c].op = "createOrder" /\ calls[c].pc = "insertItems"
    /\ LET call == calls[c]
           itemSpecs == call.orderData.order_items
           log == Logged(call, "insert", "order_items", resp)
       IN IF Len(itemSpecs) > 0
          THEN IF resp # NoError
               THEN /\ calls' = Overlap(c, Reject([call EXCEPT !.log = log], resp))
                    /\ UNCHANGED <<orderVars>>
               ELSE /\ order_items' = order_items \cup
                            NewOrderItems(call.orderId, itemSpecs, nextOrderItemId)
                    /\ order_item_addons' = order_item_addons \cup
                            {[id |-> 100 + nextOrderItemId + i,
                              order_item_id |-> nextOrderItemId + i - 1] :
                                i \in {k \in 1..Len(itemSpecs) : itemSpecs[k].addons # {}}}
                    /\ nextOrderItemId' = nextOrderItemId + Len(itemSpecs)
                    /\ calls' = Overlap(c, Resolve([call EXCEPT !.log = log]))
                    /\ UNCHANGED <<orders, nextOrderId>>
          ELSE /\ resp = NoError
               /\ calls' = Overlap(c, Resolve(call))
               /\ UNCHANGED <<orderVars>>
    /\ UNCHANGED authVars
    /\ UNCHANGED <<menuVars, catalogVars, callVars>>

\* menu.js 511-533: insert the order_items batch when there is one, return order
CreateOrderInsertItems(c, resp) ==
    /\ calls[c].op = "createOrder" /\ calls[c].pc = "insertItems"
    /\ LET call == calls[c]
           itemSpecs == call.orderData.order_items
           log == Logged(call, "insert", "order_items", resp)
       IN IF Len(itemSpecs) > 0
          THEN IF resp # NoError
               THEN /\ calls' = Overlap(c, Reject([call EXCEPT !.log = log], resp))
                    /\ UNCHANGED <<orderVars>>
               ELSE /\ order_items' = order_items \cup
                            NewOrderItems(call.orderId, itemSpecs, nextOrderItemId)
                    /\ nextOrderItemId' = nextOrderItemId + Len(itemSpecs)
                    /\ calls' = Overlap(c, Resolve([call EXCEPT !.log = log]))
                    /\ UNCHANGED <<orders, order_item_addons, nextOrderId>>
          ELSE /\ resp = NoError
               /\ calls' = Overlap(c, Resolve(call))
               /\ UNCHANGED <<orderVars>>
    /\ UNCHANGED authVars
    /\ UNCHANGED <<menuVars, catalogVars, callVars>>

\* the data of an answer without a row
Null == [id |-> 0]

\* ------------------------------------------- OrdersService.updateOrderStatus
UpdateOrderStatusCall(c, orderId, status) ==
    /\ CanStart(c)
    /\ calls' = Overlap(c, [op |-> "updateOrderStatus", pc |-> "updateOrder",
                            orderId |-> orderId, status |-> status,
                            data |-> Null, log |-> <<>>,
                            outcome |-> "pending", err |-> NoError,
                            alone |-> ~OthersRunning(c), pre |-> Store])
    /\ started' = started + 1
    /\ everInterleaved' = (everInterleaved \/ OthersRunning(c))
    /\ UNCHANGED authVars
    /\ UNCHANGED <<orderVars, menuVars, catalogVars>>

\* a variant that leaves a completed order as it is
UpdatedOrderUnlessCompleted(row, status) ==
    IF row.status = "completed" THEN row ELSE [row EXCEPT !.status = status]

\* menu.js 544: the one column .update({ status }) writes
UpdatedOrder(row, status) == [row EXCEPT !.status = status]

\* menu.js 540-558: update the status of the rows with the id and read the
\* updated row back with .select().single(); no row is the error of .single()
UpdateOrderStatusUpdate(c, resp) ==
    /\ calls[c].op = "updateOrderStatus" /\ calls[c].pc = "updateOrder"
    /\ LET call == calls[c]
           matched == Eq(orders, "id", call.orderId)
           updated == {UpdatedOrder(r, call.status) : r \in matched}
           error == IF resp # NoError THEN resp ELSE SingleError(updated)
           log == Logged(call, "update", "orders", error)
       IN /\ orders' = IF resp # NoError THEN orders
                       ELSE (orders \ matched) \cup updated
          /\ calls' = Overlap(c,
                IF error # NoError THEN Reject([call EXCEPT !.log = log], error)
                ELSE Resolve([call EXCEPT !.log = log,
                                          !.data = IF updated = {} THEN Null
                                                   ELSE CHOOSE r \in updated : TRUE]))
    /\ UNCHANGED authVars
    /\ UNCHANGED <<order_items, order_item_addons, nextOrderId, nextOrderItemId,
                   menuVars, catalogVars, callVars>>

\* ------------------------------------------------- OrdersService.deleteOrder
DeleteOrderCall(c, orderId) ==
    /\ CanStart(c)
    /\ calls' = Overlap(c, [op |-> "deleteOrder", pc |-> "fetchOrder",
                            orderData |-> Null, orderId |-> orderId,
                            orderItemIds |-> {}, log |-> <<>>,
                            outcome |-> "pending", err |-> NoError,
                            alone |-> ~OthersRunning(c), pre |-> Store])
    /\ started' = started + 1
    /\ everInterleaved' = (everInterleaved \/ OthersRunning(c))
    /\ UNCHANGED authVars
    /\ UNCHANGED <<orderVars, menuVars, catalogVars>>

\* a variant that does not check that the order exists
DeleteOrderFetchOrderUnchecked(c, resp) ==
    /\ calls[c].op = "deleteOrder" /\ calls[c].pc = "fetchOrder"
    /\ LET call == calls[c]
           log == Logged(call, "select", "orders", resp)
       IN calls' = Overlap(c,
            IF resp # NoError THEN Reject([call EXCEPT !.log = log], resp)
            ELSE [call EXCEPT !.log = log, !.pc = "fetchItems"])
    /\ UNCHANGED authVars
    /\ UNCHANGED <<orderVars, menuVars, catalogVars, callVars>>

\* menu.js 564-584: select the order with .single(); throw the store's error,
\* or 'Order not found' when the store answered without a row
DeleteOrderFetchOrder(c, resp) ==
    /\ calls[c].op = "deleteOrder" /\ calls[c].pc = "fetchOrder"
    /\ LET call == calls[c]
           rows == Eq(orders, "id", call.orderId)
           fetchError == IF resp # NoError THEN resp ELSE SingleError(rows)
           order == IF fetchError = NoError THEN CHOOSE r \in rows : TRUE ELSE Null
           log == Logged(call, "select", "orders", fetchError)
       IN calls' = Overlap(c,
            IF fetchError # NoError THEN Reject([call EXCEPT !.log = log], fetchError)
            ELSE IF order = Null THEN Reject([call EXCEPT !.log = log], OrderNotFound)
            ELSE [call EXCEPT !.log = log, !.orderData = order, !.pc = "fetchItems"])
    /\ UNCHANGED authVars
    /\ UNCHANGED <<orderVars, menuVars, catalogVars, callVars>>

\* a variant that forgets the add-ons of the items
AfterFetchItemsSkipAddons(orderItems) ==
    IF Cardinality(orderItems) > 0 THEN "deleteItems" ELSE "deleteOrderRow"

\* a variant that deletes the order row without its items
AfterFetchItemsSkipChildren(orderItems) == "deleteOrderRow"

\* menu.js 598-599, 629: with order items their add-ons are deleted next,
\* without any the order row is
AfterFetchItems(orderItems) ==
    IF Cardinality(orderItems) > 0 THEN "deleteAddons" ELSE "deleteOrderRow"

\* menu.js 586-599: select the ids of the order's items
DeleteOrderFetchItems(c, resp) ==
    /\ calls[c].op = "deleteOrder" /\ calls[c].pc = "fetchItems"
    /\ LET call == calls[c]
           orderItems == Eq(order_items, "order_id", call.orderId)
           log == Logged(call, "select", "order_items", resp)
       IN calls' = Overlap(c,
            IF resp # NoError THEN Reject([call EXCEPT !.log = log], resp)
            ELSE [call EXCEPT !.log = log,
                              !.orderItemIds = {item.id : item \in orderItems},
                              !.pc = AfterFetchItems(orderItems)])
    /\ UNCHANGED authVars
    /\ UNCHANGED <<orderVars, menuVars, catalogVars, callVars>>

\* a variant that goes on when the delete of the add-ons failed
DeleteOrderDeleteAddonsIgnoreError(c, resp) ==
    /\ calls[c].op = "deleteOrder" /\ calls[c].pc = "deleteAddons"
    /\ LET call == calls[c]
           log == Logged(call, "delete", "order_item_addons", resp)
       IN /\ order_item_addons' =
                IF resp # NoError THEN order_item_addons
                ELSE order_item_addons \
                        In(order_item_addons, "order_item_id", call.orderItemIds)
          /\ calls' = Overlap(c, [call EXCEPT !.log = log, !.pc = "deleteItems"])
    /\ UNCHANGED authVars
    /\ UNCHANGED <<orders, order_items, nextOrderId, nextOrderItemId,
                   menuVars, catalogVars, callVars>>

\* menu.js 600-613: delete the add-ons of the fetched item ids
DeleteOrderDeleteAddons(c, resp) ==
    /\ calls[c].op = "deleteOrder" /\ calls[c].pc = "deleteAddons"
    /\ LET call == calls[c]
           log == Logged(call, "delete", "order_item_addons", resp)
       IN IF resp # NoError
          THEN /\ calls' = Overlap(c, Reject([call EXCEPT !.log = log], resp))
               /\ UNCHANGED order_item_addons
          ELSE /\ order_item_addons' = order_item_addons \
                        In(order_item_addons, "order_item_id", call.orderItemIds)
               /\ calls' = Overlap(c, [call EXCEPT !.log = log, !.pc = "deleteItems"])
    /\ UNCHANGED authVars
    /\ UNCHANGED <<orders, order_items, nextOrderId, nextOrderItemId,
                   menuVars, catalogVars, callVars>>

\* a variant that goes on when the delete of the items failed
DeleteOrderDeleteItemsIgnoreError(c, resp) ==
    /\ calls[c].op = "deleteOrder" /\ calls[c].pc = "deleteItems"
    /\ LET call == calls[c]
           log == Logged(call, "delete", "order_items", resp)
       IN /\ order_items' = IF resp # NoError THEN order_items
                            ELSE order_items \ Eq(order_items, "order_id", call.orderId)
          /\ calls' = Overlap(c, [call EXCEPT !.log = log, !.pc = "deleteOrderRow"])
    /\ UNCHANGED authVars
    /\ UNCHANGED <<orders, order_item_addons, nextOrderId, nextOrderItemId,
                   menuVars, catalogVars, callVars>>

\* a variant whose delete of order_items has lost its filter
DeleteOrderDeleteItemsUnfiltered(c, resp) ==
    /\ calls[c].op = "deleteOrder" /\ calls[c].pc = "deleteItems"
    /\ LET call == calls[c]
           log == Logged(call, "delete", "order_items", resp)
       IN IF resp # NoError
          THEN /\ calls' = Overlap(c, Reject([call EXCEPT !.log = log], resp))
               /\ UNCHANGED order_items
          ELSE /\ order_items' = {}
               /\ calls' = Overlap(c, [call EXCEPT !.log = log, !.pc = "deleteOrderRow"])
    /\ UNCHANGED authVars
    /\ UNCHANGED <<orders, order_item_addons, nextOrderId, nextOrderItemId,
                   menuVars, catalogVars, callVars>>

\* menu.js 615-627: delete the order_items rows of the order
DeleteOrderDeleteItems(c, resp) ==
    /\ calls[c].op = "deleteOrder" /\ calls[c].pc = "deleteItems"
    /\ LET call == calls[c]
           log == Logged(call, "delete", "order_items", resp)
       IN IF resp # NoError
          THEN /\ calls' = Overlap(c, Reject([call EXCEPT !.log = log], resp))
               /\ UNCHANGED order_items
          ELSE /\ order_items' = order_items \ Eq(order_items, "order_id", call.orderId)
               /\ calls' = Overlap(c, [call EXCEPT !.log = log, !.pc = "deleteOrderRow"])
    /\ UNCHANGED authVars
    /\ UNCHANGED <<orders, order_item_addons, nextOrderId, nextOrderItemId,
                   menuVars, catalogVars, callVars>>

\* menu.js 629-641: delete the order row and return the fetched order
DeleteOrderDeleteOrder(c, resp) ==
    /\ calls[c].op = "deleteOrder" /\ calls[c].pc = "deleteOrderRow"
    /\ LET call == calls[c]
           log == Logged(call, "delete", "orders", resp)
       IN IF resp # NoError
          THEN /\ calls' = Overlap(c, Reject([call EXCEPT !.log = log], resp))
               /\ UNCHANGED orders
          ELSE /\ orders' = orders \ Eq(orders, "id", call.orderId)
               /\ calls' = Overlap(c, Resolve([call EXCEPT !.log = log]))
    /\ UNCHANGED authVars
    /\ UNCHANGED <<order_items, order_item_addons, nextOrderId, nextOrderItemId,
                   menuVars, catalogVars, callVars>>

\* ---------------------------------------- MenuService.getMenuItemVariants
\* .order('display_order', { ascending: true }): the rows in any sequence that
\* is non-decreasing in display_order (rows with equal keys come in any order)
RECURSIVE OrderedBy(_, _)
OrderedBy(rows, col) ==
    IF rows = {} THEN {<< >>}
    ELSE LET first == {r \in rows : \A q \in rows : r[col] <= q[col]}
         IN UNION {{<<r>> \o rest : rest \in OrderedBy(rows \ {r}, col)} : r \in first}

GetMenuItemVariantsCall(c, menuItemId) ==
    /\ CanStart(c)
    /\ calls' = Overlap(c, [op |-> "getMenuItemVariants", pc |-> "selectVariants",
                            menuItemId |-> menuItemId, variants |-> <<>>,
                            loaded |-> 0, seen |-> NoSave, log |-> <<>>,
                            outcome |-> "pending", err |-> NoError,
                            alone |-> ~OthersRunning(c), pre |-> Store])
    /\ started' = started + 1
    /\ everInterleaved' = (everInterleaved \/ OthersRunning(c))
    /\ UNCHANGED authVars
    /\ UNCHANGED <<orderVars, menuVars, catalogVars>>

\* a variant that filters with .neq
VariantRowsOfOthers(menuItemId) ==
    {v \in menu_item_variants : v.menu_item_id # menuItemId}

\* menu.js 243: .eq('menu_item_id', menuItemId)
VariantRows(menuItemId) == Eq(menu_item_variants, "menu_item_id", menuItemId)

\* menu.js 240-248: select the item's variants ordered by display_order
GetMenuItemVariantsSelect(c, resp) ==
    /\ calls[c].op = "getMenuItemVariants" /\ calls[c].pc = "selectVariants"
    /\ LET call == calls[c]
           log == Logged(call, "select", "menu_item_variants", resp)
       IN IF resp # NoError
          THEN calls' = Overlap(c, Reject([call EXCEPT !.log = log], resp))
          ELSE \E data \in OrderedBy(VariantRows(call.menuItemId), "display_order") :
                  calls' = Overlap(c,
                      IF Len(data) = 0
                      THEN Resolve([call EXCEPT !.log = log, !.seen = lastSave])
                      ELSE [call EXCEPT !.log = log, !.variants = data,
                                        !.seen = lastSave, !.pc = "loadGroups"])
    /\ UNCHANGED authVars
    /\ UNCHANGED <<orderVars, menuVars, catalogVars, callVars>>

\* menu.js 310-328: getVariantAddonGroups, the embedded array of the variant
\* row read with .single(); an absent array reads as the empty list
VariantAddonGroups(variantId, resp) ==
    LET rows == Eq(menu_item_variants, "id", variantId)
        error == IF resp # NoError THEN resp ELSE SingleError(rows)
        ids == (CHOOSE r \in rows : TRUE).addon_groups
    IN [error |-> error,
        groups |-> IF error = NoError
                   THEN [i \in 1..Len(ids) |-> [addon_group_id |-> ids[i]]]
                   ELSE <<>>]

\* menu.js 94, 254: variantAddonGroups.map(group => group.addon_group_id)
GroupIdsOf(groups) == [i \in 1..Len(groups) |-> groups[i].addon_group_id]

\* menu.js 250-263: one getVariantAddonGroups per variant; an error is logged
\* and leaves the variant with the empty list
GetMenuItemVariantsLoadGroups(c, resp) ==
    /\ calls[c].op = "getMenuItemVariants" /\ calls[c].pc = "loadGroups"
    /\ LET call == calls[c]
           k == call.loaded + 1
           answer == VariantAddonGroups(call.variants[k].id, resp)
           log == Logged(call, "select", "menu_item_variants", answer.error)
           next == [call EXCEPT !.log = log, !.loaded = k,
                                !.variants[k].addon_groups =
                                    IF answer.error = NoError
                                    THEN GroupIdsOf(answer.groups) ELSE <<>>]
       IN calls' = Overlap(c, IF k = Len(call.variants) THEN Resolve(next) ELSE next)
    /\ UNCHANGED authVars
    /\ UNCHANGED <<orderVars, menuVars, catalogVars, callVars>>

\* ---------------------------------------- MenuService.saveMenuItemVariants
VariantLists == UNION {[1..n -> [name : VariantNames]] : n \in 0..MaxVariants}
\* variants as the editor hands them over, with groups chosen for them (the
\* same groups for every variant of a list)
GroupedVariantLists ==
    {[i \in 1..Len(list) |-> [name |-> list[i].name, addon_groups |-> groups]] :
        list \in VariantLists,
        groups \in UNION {[1..n -> AddonGroupIds] : n \in 0..MaxGroups}}

SaveMenuItemVariantsCall(c, menuItemId, variants) ==
    /\ CanStart(c)
    /\ calls' = Overlap(c, [op |-> "saveMenuItemVariants", pc |-> "getCurrentUser",
                            menuItemId |-> menuItemId, variants |-> variants,
                            replaced |-> 0, log |-> <<>>,
                            outcome |-> "pending", err |-> NoError,
                            alone |-> ~OthersRunning(c), pre |-> Store])
    /\ started' = started + 1
    /\ everInterleaved' = (everInterleaved \/ OthersRunning(c))
    /\ UNCHANGED authVars
    /\ UNCHANGED <<orderVars, menuVars, catalogVars>>

\* menu.js 272-274: AuthService.getCurrentUser() never throws, it yields the
\* user or null; the save awaits it before its first store call.  The user id
\* is only copied into the user_id column, which the model leaves out.
SaveMenuItemVariantsGetUser(c) ==
    /\ calls[c].op = "saveMenuItemVariants" /\ calls[c].pc = "getCurrentUser"
    /\ calls' = Overlap(c, [calls[c] EXCEPT !.pc = "deleteVariants"])
    /\ UNCHANGED authVars
    /\ UNCHANGED <<orderVars, menuVars, catalogVars, callVars>>

\* what the history keeps of a save that succeeded
SaveRecord(call, replaced) ==
    [item |-> call.menuItemId, variants |-> call.variants,
     alone |-> call.alone, replaced |-> replaced]

\* menu.js 277-280: the rows .delete().eq('menu_item_id', menuItemId) matches
ExistingVariants(menuItemId) == Eq(menu_item_variants, "menu_item_id", menuItemId)

\* a variant that goes on to the insert when the delete has failed
SaveMenuItemVariantsDeleteIgnoreError(c, resp) ==
    /\ calls[c].op = "saveMenuItemVariants" /\ calls[c].pc = "deleteVariants"
    /\ LET call == calls[c]
           existing == IF resp # NoError THEN {} ELSE ExistingVariants(call.menuItemId)
           log == Logged(call, "delete", "menu_item_variants", resp)
           next == [call EXCEPT !.log = log, !.replaced = Cardinality(existing)]
       IN /\ menu_item_variants' = menu_item_variants \ existing
          /\ IF Len(call.variants) > 0
             THEN /\ calls' = Overlap(c, [next EXCEPT !.pc = "insertVariants"])
                  /\ lastSave' = NoSave
             ELSE /\ calls' = Overlap(c, Resolve(next))
                  /\ lastSave' = SaveRecord(call, Cardinality(existing))
    /\ UNCHANGED authVars
    /\ UNCHANGED <<orderVars, nextVariantId, catalogVars, callVars>>

\* menu.js 276-285, 302: delete the item's variants; an empty list is saved by that
SaveMenuItemVariantsDelete(c, resp) ==
    /\ calls[c].op = "saveMenuItemVariants" /\ calls[c].pc = "deleteVariants"
    /\ LET call == calls[c]
           existing == ExistingVariants(call.menuItemId)
           log == Logged(call, "delete", "menu_item_variants", resp)
           next == [call EXCEPT !.log = log, !.replaced = Cardinality(existing)]
       IN IF resp # NoError
          THEN /\ calls' = Overlap(c, Reject([call EXCEPT !.log = log], resp))
               /\ UNCHANGED <<menu_item_variants, lastSave>>
          ELSE /\ menu_item_variants' = menu_item_variants \ existing
               /\ IF Len(call.variants) > 0
                  THEN /\ calls' = Overlap(c, [next EXCEPT !.pc = "insertVariants"])
                       /\ lastSave' = NoSave
                  ELSE /\ calls' = Overlap(c, Resolve(next))
                       /\ lastSave' = SaveRecord(call, Cardinality(existing))
    /\ UNCHANGED authVars
    /\ UNCHANGED <<orderVars, nextVariantId, catalogVars, callVars>>

\* a variant that numbers the variants from 1
DisplayOrderFromOne(index) == index

\* menu.js 286, 291: display_order is the 0-based index of Array.map; index
\* is the 1-based position in the sequence
DisplayOrder(index) == index - 1

\* a variant that copies the groups of the input
NewVariantsWithGroups(menuItemId, variants, firstId) ==
    {[id |-> firstId + i - 1, menu_item_id |-> menuItemId,
      name |-> variants[i].name, display_order |-> DisplayOrder(i),
      addon_groups |-> variants[i].addon_groups] : i \in 1..Len(variants)}

\* menu.js 286-293: the rows variants.map(...) builds, with the ids the store
\* assigns; the rows get no addon_groups (additional_price, image_url and
\* user_id are copied like name and are left out)
NewVariants(menuItemId, variants, firstId) ==
    {[id |-> firstId + i - 1, menu_item_id |-> menuItemId,
      name |-> variants[i].name, display_order |-> DisplayOrder(i),
      addon_groups |-> <<>>] : i \in 1..Len(variants)}

\* menu.js 295-302: insert the new rows
SaveMenuItemVariantsInsert(c, resp) ==
    /\ calls[c].op = "saveMenuItemVariants" /\ calls[c].pc = "insertVariants"
    /\ LET call == calls[c]
           log == Logged(call, "insert", "menu_item_variants", resp)
       IN IF resp # NoError
          THEN /\ calls' = Overlap(c, Reject([call EXCEPT !.log = log], resp))
               /\ UNCHANGED <<menu_item_variants, nextVariantId, lastSave>>
          ELSE /\ menu_item_variants' = menu_item_variants \cup
                    NewVariants(call.menuItemId, call.variants, nextVariantId)
               /\ nextVariantId' = nextVariantId + Len(call.variants)
               /\ lastSave' = SaveRecord(call, call.replaced)
               /\ calls' = Overlap(c, Resolve([call EXCEPT !.log = log]))
    /\ UNCHANGED authVars
    /\ UNCHANGED <<orderVars, catalogVars, callVars>>

\* ---------------------------------------- MenuService.getVariantAddonGroups
GetVariantAddonGroupsCall(c, variantId) ==
    /\ CanStart(c)
    /\ calls' = Overlap(c, [op |-> "getVariantAddonGroups", pc |-> "selectGroups",
                            variantId |-> variantId, groups |-> <<>>,
                            seen |-> NoUpdate, log |-> <<>>,
                            outcome |-> "pending", err |-> NoError,
                            alone |-> ~OthersRunning(c), pre |-> Store])
    /\ started' = started + 1
    /\ everInterleaved' = (everInterleaved \/ OthersRunning(c))
    /\ UNCHANGED authVars
    /\ UNCHANGED <<orderVars, menuVars, catalogVars>>

\* menu.js 310-328: the one select; the error of the store or of .single()
\* is rethrown
GetVariantAddonGroupsSelect(c, resp) ==
    /\ calls[c].op = "getVariantAddonGroups" /\ calls[c].pc = "selectGroups"
    /\ LET call == calls[c]
           answer == VariantAddonGroups(call.variantId, resp)
           log == Logged(call, "select", "menu_item_variants", answer.error)
       IN calls' = Overlap(c,
              IF answer.error # NoError
              THEN Reject([call EXCEPT !.log = log, !.seen = lastUpdate], answer.error)
              ELSE Resolve([call EXCEPT !.log = log, !.groups = answer.groups,
                                        !.seen = lastUpdate]))
    /\ UNCHANGED authVars
    /\ UNCHANGED <<orderVars, menuVars, catalogVars, callVars>>

\* ------------------------------------- MenuService.updateVariantAddonGroups
GroupIdLists == UNION {[1..n -> AddonGroupIds] : n \in 0..MaxGroups}

UpdateVariantAddonGroupsCall(c, variantId, addonGroupIds) ==
    /\ CanStart(c)
    /\ calls' = Overlap(c, [op |-> "updateVariantAddonGroups", pc |-> "updateVariant",
                            variantId |-> variantId, addonGroupIds |-> addonGroupIds,
                            log |-> <<>>,
                            outcome |-> "pending", err |-> NoError,
                            alone |-> ~OthersRunning(c), pre |-> Store])
    /\ started' = started + 1
    /\ everInterleaved' = (everInterleaved \/ OthersRunning(c))
    /\ UNCHANGED authVars
    /\ UNCHANGED <<orderVars, menuVars, catalogVars>>

\* a variant that adds the ids to the ones the row holds
UpdatedVariantAppending(row, addonGroupIds) ==
    [row EXCEPT !.addon_groups = row.addon_groups \o addonGroupIds]

\* menu.js 335-338: the columns .update({addon_groups, updated_at}) writes
\* (updated_at is a timestamp nothing reads; the model leaves it out)
UpdatedVariant(row, addonGroupIds) == [row EXCEPT !.addon_groups = addonGroupIds]

\* menu.js 331-346: one update filtered by id, without .select(): an id that
\* matches no row is no error
UpdateVariantAddonGroupsUpdate(c, resp) ==
    /\ calls[c].op = "updateVariantAddonGroups" /\ calls[c].pc = "updateVariant"
    /\ LET call == calls[c]
           matched == Eq(menu_item_variants, "id", call.variantId)
           log == Logged(call, "update", "menu_item_variants", resp)
       IN IF resp # NoError
          THEN /\ calls' = Overlap(c, Reject([call EXCEPT !.log = log], resp))
               /\ UNCHANGED <<menu_item_variants, lastUpdate>>
          ELSE /\ menu_item_variants' = (menu_item_variants \ matched) \cup
                     {UpdatedVariant(r, call.addonGroupIds) : r \in matched}
               /\ lastUpdate' = [variant |-> call.variantId,
                                 groups |-> call.addonGroupIds,
                                 matched |-> matched # {}]
               /\ calls' = Overlap(c, Resolve([call EXCEPT !.log = log]))
    /\ UNCHANGED authVars
    /\ UNCHANGED <<orderVars, nextVariantId, lastSave, menu_items, menu_item_addons,
                   addon_groups, addons, nextAddonId, nextGroupId, categories,
                   nextCategoryId, nextItemId, callVars>>

\* ------------------------------------ MenuService.updateMenuItemAddonGroups
UpdateMenuItemAddonGroupsCall(c, menuItemId, addonGroupIds) ==
    /\ CanStart(c)
    /\ calls' = Overlap(c, [op |-> "updateMenuItemAddonGroups", pc |-> "deleteLinks",
                            menuItemId |-> menuItemId, addonGroupIds |-> addonGroupIds,
                            log |-> <<>>,
                            outcome |-> "pending", err |-> NoError,
                            alone |-> ~OthersRunning(c), pre |-> Store])
    /\ started' = started + 1
    /\ everInterleaved' = (everInterleaved \/ OthersRunning(c))
    /\ UNCHANGED authVars
    /\ UNCHANGED <<orderVars, menuVars, catalogVars>>

\* a variant whose delete matches no row
ExistingLinksNone(menuItemId) == {}

\* a variant whose delete has no filter
ExistingLinksAll(menuItemId) == menu_item_addons

\* menu.js 211-214: the rows .delete().eq('menu_item_id', menuItemId) matches
ExistingLinks(menuItemId) == Eq(menu_item_addons, "menu_item_id", menuItemId)

\* menu.js 210-216: remove the item's associations
UpdateMenuItemAddonGroupsDelete(c, resp) ==
    /\ calls[c].op = "updateMenuItemAddonGroups" /\ calls[c].pc = "deleteLinks"
    /\ LET call == calls[c]
           log == Logged(call, "delete", "menu_item_addons", resp)
           next == [call EXCEPT !.log = log]
       IN IF resp # NoError
          THEN /\ calls' = Overlap(c, Reject(next, resp))
               /\ UNCHANGED menu_item_addons
          ELSE /\ menu_item_addons' = menu_item_addons \ ExistingLinks(call.menuItemId)
               /\ calls' = Overlap(c, IF Len(call.addonGroupIds) > 0
                                      THEN [next EXCEPT !.pc = "insertLinks"]
                                      ELSE Resolve(next))
    /\ UNCHANGED authVars
    /\ UNCHANGED <<orderVars, menuVars, menu_items, addon_groups, addons, nextAddonId,
                   nextGroupId, lastUpdate, categories, nextCategoryId, nextItemId,
                   callVars>>

\* menu.js 220-223: one association per id of the list (the table is a set of
\* pairs: an id given twice is one association)
Associations(menuItemId, addonGroupIds) ==
    {[menu_item_id |-> menuItemId, addon_group_id |-> addonGroupIds[i]] :
        i \in 1..Len(addonGroupIds)}

\* a variant that does not look at the error of the insert
UpdateMenuItemAddonGroupsInsertIgnoreError(c, resp) ==
    /\ calls[c].op = "updateMenuItemAddonGroups" /\ calls[c].pc = "insertLinks"
    /\ LET call == calls[c]
           log == Logged(call, "insert", "menu_item_addons", resp)
       IN /\ menu_item_addons' = IF resp # NoError THEN menu_item_addons
                                 ELSE menu_item_addons \cup
                                      Associations(call.menuItemId, call.addonGroupIds)
          /\ calls' = Overlap(c, Resolve([call EXCEPT !.log = log]))
    /\ UNCHANGED authVars
    /\ UNCHANGED <<orderVars, menuVars, menu_items, addon_groups, addons, nextAddonId,
                   nextGroupId, lastUpdate, categories, nextCategoryId, nextItemId,
                   callVars>>

\* menu.js 219-230: insert the new associations
UpdateMenuItemAddonGroupsInsert(c, resp) ==
    /\ calls[c].op = "updateMenuItemAddonGroups" /\ calls[c].pc = "insertLinks"
    /\ LET call == calls[c]
           log == Logged(call, "insert", "menu_item_addons", resp)
           next == [call EXCEPT !.log = log]
       IN IF resp # NoError
          THEN /\ calls' = Overlap(c, Reject(next, resp))
               /\ UNCHANGED menu_item_addons
          ELSE /\ menu_item_addons' = menu_item_addons \cup
                     Associations(call.menuItemId, call.addonGroupIds)
               /\ calls' = Overlap(c, Resolve(next))
    /\ UNCHANGED authVars
    /\ UNCHANGED <<orderVars, menuVars, menu_items, addon_groups, addons, nextAddonId,
                   nextGroupId, lastUpdate, categories, nextCategoryId, nextItemId,
                   callVars>>

\* ------------------------------------------------- MenuService.getMenuItems
\* .order(col, {ascending: false})
Reversed(seq) == [i \in 1..Len(seq) |-> seq[Len(seq) + 1 - i]]

\* innerFailed and outerFailed are history: the variants whose group
\* resolution failed inside getMenuItemVariants, and in getMenuItems' own loop
GetMenuItemsCall(c, categoryId) ==
    /\ CanStart(c)
    /\ calls' = Overlap(c, [op |-> "getMenuItems", pc |-> "selectItems",
                            categoryId |-> categoryId, menuItems |-> <<>>,
                            item |-> 0, variant |-> 0,
                            innerFailed |-> {}, outerFailed |-> {}, log |-> <<>>,
                            outcome |-> "pending", err |-> NoError,
                            alone |-> ~OthersRunning(c), pre |-> Store])
    /\ started' = started + 1
    /\ everInterleaved' = (everInterleaved \/ OthersRunning(c))
    /\ UNCHANGED authVars
    /\ UNCHANGED <<orderVars, menuVars, catalogVars>>

\* menu.js 75-81, 104: select the category's items, newest first
GetMenuItemsSelectItems(c, resp) ==
    /\ calls[c].op = "getMenuItems" /\ calls[c].pc = "selectItems"
    /\ LET call == calls[c]
           log == Logged(call, "select", "menu_items", resp)
       IN IF resp # NoError
          THEN calls' = Overlap(c, Reject([call EXCEPT !.log = log], resp))
          ELSE \E data \in OrderedBy(Eq(menu_items, "category_id", call.categoryId),
                                     "created_at") :
                  LET menuItems == [i \in 1..Len(data) |->
                                       Reversed(data)[i] @@ [variants |-> <<>>]]
                  IN calls' = Overlap(c,
                        IF Len(data) = 0
                        THEN Resolve([call EXCEPT !.log = log])
                        ELSE [call EXCEPT !.log = log, !.menuItems = menuItems,
                                          !.item = 1, !.pc = "selectVariants"])
    /\ UNCHANGED authVars
    /\ UNCHANGED <<orderVars, menuVars, catalogVars, callVars>>

\* menu.js 85-101: the loop goes to the next item, or the call returns
AfterItem(call) ==
    IF call.item = Len(call.menuItems)
    THEN Resolve(call)
    ELSE [call EXCEPT !.item = call.item + 1, !.variant = 0, !.pc = "selectVariants"]

\* menu.js 86, 240-248: getMenuItemVariants(item.id) selects the item's
\* variants; its error is rethrown, and getMenuItems rethrows it
GetMenuItemsSelectVariants(c, resp) ==
    /\ calls[c].op = "getMenuItems" /\ calls[c].pc = "selectVariants"
    /\ LET call == calls[c]
           log == Logged(call, "select", "menu_item_variants", resp)
       IN IF resp # NoError
          THEN calls' = Overlap(c, Reject([call EXCEPT !.log = log], resp))
          ELSE \E data \in OrderedBy(Eq(menu_item_variants, "menu_item_id",
                                        call.menuItems[call.item].id), "display_order") :
                  LET next == [call EXCEPT !.log = log,
                                           !.menuItems[call.item].variants = data]
                  IN calls' = Overlap(c,
                        IF Len(data) = 0 THEN AfterItem(next)
                        ELSE [next EXCEPT !.variant = 1, !.pc = "innerGroups"])
    /\ UNCHANGED authVars
    /\ UNCHANGED <<orderVars, menuVars, catalogVars, callVars>>

\* menu.js 86, 250-263: inside getMenuItemVariants, one getVariantAddonGroups
\* per variant; an error leaves the variant with the empty list
GetMenuItemsInnerGroups(c, resp) ==
    /\ calls[c].op = "getMenuItems" /\ calls[c].pc = "innerGroups"
    /\ LET call == calls[c]
           i == call.item
           k == call.variant
           variantId == call.menuItems[i].variants[k].id
           answer == VariantAddonGroups(variantId, resp)
           log == Logged(call, "select", "menu_item_variants", answer.error)
           next == [call EXCEPT
                       !.log = log,
                       !.innerFailed = IF answer.error = NoError THEN @
                                       ELSE @ \cup {variantId},
                       !.menuItems[i].variants[k].addon_groups =
                           IF answer.error = NoError
                           THEN GroupIdsOf(answer.groups) ELSE <<>>]
       IN calls' = Overlap(c,
              IF k = Len(call.menuItems[i].variants)
              THEN [next EXCEPT !.variant = 1, !.pc = "outerGroups"]
              ELSE [next EXCEPT !.variant = k + 1])
    /\ UNCHANGED authVars
    /\ UNCHANGED <<orderVars, menuVars, catalogVars, callVars>>

\* a variant that rethrows the error of the group resolution
GetMenuItemsOuterGroupsRethrowing(c, resp) ==
    /\ calls[c].op = "getMenuItems" /\ calls[c].pc = "outerGroups"
    /\ LET call == calls[c]
           i == call.item
           k == call.variant
           variantId == call.menuItems[i].variants[k].id
           answer == VariantAddonGroups(variantId, resp)
           log == Logged(call, "select", "menu_item_variants", answer.error)
           next == [call EXCEPT
                       !.log = log,
                       !.menuItems[i].variants[k].addon_groups =
                           GroupIdsOf(answer.groups)]
       IN calls' = Overlap(c,
              IF answer.error # NoError THEN Reject(next, answer.error)
              ELSE IF k = Len(call.menuItems[i].variants) THEN AfterItem(next)
              ELSE [next EXCEPT !.variant = k + 1])
    /\ UNCHANGED authVars
    /\ UNCHANGED <<orderVars, menuVars, catalogVars, callVars>>

\* menu.js 90-100: getMenuItems resolves the groups of every variant once
\* more; the result replaces what getMenuItemVariants stored, and an error
\* leaves the variant with the empty list
GetMenuItemsOuterGroups(c, resp) ==
    /\ calls[c].op = "getMenuItems" /\ calls[c].pc = "outerGroups"
    /\ LET call == calls[c]
           i == call.item
           k == call.variant
           variantId == call.menuItems[i].variants[k].id
           answer == VariantAddonGroups(variantId, resp)
           log == Logged(call, "select", "menu_item_variants", answer.error)
           next == [call EXCEPT
                       !.log = log,
                       !.outerFailed = IF answer.error = NoError THEN @
                                       ELSE @ \cup {variantId},
                       !.menuItems[i].variants[k].addon_groups =
                           IF answer.error = NoError
                           THEN GroupIdsOf(answer.groups) ELSE <<>>]
       IN calls' = Overlap(c,
              IF k = Len(call.menuItems[i].variants) THEN AfterItem(next)
              ELSE [next EXCEPT !.variant = k + 1])
    /\ UNCHANGED authVars
    /\ UNCHANGED <<orderVars, menuVars, catalogVars, callVars>>

\* ============================================== MenuService, single rows
\* the ids the store assigns in categories and in menu_items, by number
CategoryId(n) == <<"cat1", "cat2", "cat3", "cat4">>[n]
ItemId(n) == <<"m1", "m2", "m3", "m4", "m5">>[n]

\* data[0] of a .select() without .single(): the row, or undefined
FirstOf(rows) == IF rows = {} THEN Null ELSE CHOOSE r \in rows : TRUE

\* ---------------------------------------------- MenuService.getCategories
\* ------------------------------------------- and OrdersService.getCategories
GetCategoriesCall(c, service, restaurantId) ==
    /\ CanStart(c)
    /\ calls' = Overlap(c, [op |-> "getCategories", pc |-> "selectCategories",
                            service |-> service, restaurantId |-> restaurantId,
                            data |-> <<>>, seen |-> {}, log |-> <<>>,
                            outcome |-> "pending", err |-> NoError,
                            alone |-> ~OthersRunning(c), pre |-> Store])
    /\ started' = started + 1
    /\ everInterleaved' = (everInterleaved \/ OthersRunning(c))
    /\ UNCHANGED authVars
    /\ UNCHANGED <<orderVars, menuVars, catalogVars>>

\* a variant that leaves the filter on the restaurant out
CategoriesOfAll(restaurantId) == categories

\* menu.js 11, 448: .eq('restaurant_id', restaurantId)
CategoriesOf(restaurantId) == Eq(categories, "restaurant_id", restaurantId)

\* menu.js 7-21 and 444-461: one select on categories, filtered by the
\* restaurant and ordered by display_order; MenuService returns data,
\* OrdersService data || [], and data is a list whenever there is no error.
\* seen is the table as it was when the store answered.
GetCategoriesSelect(c, resp) ==
    /\ calls[c].op = "getCategories" /\ calls[c].pc = "selectCategories"
    /\ LET call == calls[c]
           log == Logged(call, "select", "categories", resp)
       IN IF resp # NoError
          THEN calls' = Overlap(c, Reject([call EXCEPT !.log = log], resp))
          ELSE \E data \in OrderedBy(CategoriesOf(call.restaurantId), "display_order") :
                  calls' = Overlap(c, Resolve([call EXCEPT !.log = log, !.data = data,
                                                           !.seen = categories]))
    /\ UNCHANGED authVars
    /\ UNCHANGED <<orderVars, menuVars, catalogVars, callVars>>

\* ---------------------------------------------- MenuService.createCategory
CategoryDatas == [restaurant_id : Restaurants, name : CategoryNames,
                  display_order : {0, 1}]

CreateCategoryCall(c, categoryData) ==
    /\ CanStart(c)
    /\ calls' = Overlap(c, [op |-> "createCategory", pc |-> "insertCategory",
                            categoryData |-> categoryData,
                            data |-> Null, log |-> <<>>,
                            outcome |-> "pending", err |-> NoError,
                            alone |-> ~OthersRunning(c), pre |-> Store])
    /\ started' = started + 1
    /\ everInterleaved' = (everInterleaved \/ OthersRunning(c))
    /\ UNCHANGED authVars
    /\ UNCHANGED <<orderVars, menuVars, catalogVars>>

\* menu.js 24-37: insert the category, .select(); the result is data[0]
CreateCategoryInsert(c, resp) ==
    /\ calls[c].op = "createCategory" /\ calls[c].pc = "insertCategory"
    /\ LET call == calls[c]
           log == Logged(call, "insert", "categories", resp)
           row == [id |-> CategoryId(nextCategoryId),
                   restaurant_id |-> call.categoryData.restaurant_id,
                   name |-> call.categoryData.name,
                   display_order |-> call.categoryData.display_order]
       IN IF resp # NoError
          THEN /\ calls' = Overlap(c, Reject([call EXCEPT !.log = log], resp))
               /\ UNCHANGED <<categories, nextCategoryId>>
          ELSE /\ categories' = categories \cup {row}
               /\ nextCategoryId' = nextCategoryId + 1
               /\ calls' = Overlap(c, Resolve([call EXCEPT !.log = log, !.data = row]))
    /\ UNCHANGED authVars
    /\ UNCHANGED <<orderVars, menuVars, menu_items, nextItemId, menu_item_addons, addon_groups,
                   addons, nextAddonId, nextGroupId, lastUpdate, callVars>>

\* ---------------------------------------------- MenuService.updateCategory
CategoryUpdates == [name : CategoryNames]

UpdateCategoryCall(c, categoryId, updates) ==
    /\ CanStart(c)
    /\ calls' = Overlap(c, [op |-> "updateCategory", pc |-> "updateCategory",
                            categoryId |-> categoryId, updates |-> updates,
                            data |-> Null, log |-> <<>>,
                            outcome |-> "pending", err |-> NoError,
                            alone |-> ~OthersRunning(c), pre |-> Store])
    /\ started' = started + 1
    /\ everInterleaved' = (everInterleaved \/ OthersRunning(c))
    /\ UNCHANGED authVars
    /\ UNCHANGED <<orderVars, menuVars, catalogVars>>

\* menu.js 40-54: update the category, .select(); an id without a row is no
\* error and the result is undefined
UpdateCategoryUpdate(c, resp) ==
    /\ calls[c].op = "updateCategory" /\ calls[c].pc = "updateCategory"
    /\ LET call == calls[c]
           log == Logged(call, "update", "categories", resp)
           matched == Eq(categories, "id", call.categoryId)
           updated == {[r EXCEPT !.name = call.updates.name] : r \in matched}
       IN IF resp # NoError
          THEN /\ calls' = Overlap(c, Reject([call EXCEPT !.log = log], resp))
               /\ UNCHANGED categories
          ELSE /\ categories' = (categories \ matched) \cup updated
               /\ calls' = Overlap(c, Resolve([call EXCEPT !.log = log,
                                                          !.data = FirstOf(updated)]))
    /\ UNCHANGED <<nextCategoryId>>
    /\ UNCHANGED authVars
    /\ UNCHANGED <<orderVars, menuVars, menu_items, nextItemId, menu_item_addons, addon_groups,
                   addons, nextAddonId, nextGroupId, lastUpdate, callVars>>

\* ---------------------------------------------- MenuService.deleteCategory
DeleteCategoryCall(c, categoryId) ==
    /\ CanStart(c)
    /\ calls' = Overlap(c, [op |-> "deleteCategory", pc |-> "deleteCategory",
                            categoryId |-> categoryId,
                            data |-> Null, log |-> <<>>,
                            outcome |-> "pending", err |-> NoError,
                            alone |-> ~OthersRunning(c), pre |-> Store])
    /\ started' = started + 1
    /\ everInterleaved' = (everInterleaved \/ OthersRunning(c))
    /\ UNCHANGED authVars
    /\ UNCHANGED <<orderVars, menuVars, catalogVars>>

\* menu.js 57-69: delete the category
DeleteCategoryDelete(c, resp) ==
    /\ calls[c].op = "deleteCategory" /\ calls[c].pc = "deleteCategory"
    /\ LET call == calls[c]
           log == Logged(call, "delete", "categories", resp)
       IN IF resp # NoError
          THEN /\ calls' = Overlap(c, Reject([call EXCEPT !.log = log], resp))
               /\ UNCHANGED categories
          ELSE /\ categories' = categories \ Eq(categories, "id", call.categoryId)
               /\ calls' = Overlap(c, Resolve([call EXCEPT !.log = log]))
    /\ UNCHANGED <<nextCategoryId>>
    /\ UNCHANGED authVars
    /\ UNCHANGED <<orderVars, menuVars, menu_items, nextItemId, menu_item_addons, addon_groups,
                   addons, nextAddonId, nextGroupId, lastUpdate, callVars>>

\* ---------------------------------------------- MenuService.createMenuItem
ItemDatas == [category_id : Categories, name : ItemNames, price : ItemPrices,
              is_available : BOOLEAN]

CreateMenuItemCall(c, itemData) ==
    /\ CanStart(c)
    /\ calls' = Overlap(c, [op |-> "createMenuItem", pc |-> "insertItem",
                            itemData |-> itemData,
                            data |-> Null, log |-> <<>>,
                            outcome |-> "pending", err |-> NoError,
                            alone |-> ~OthersRunning(c), pre |-> Store])
    /\ started' = started + 1
    /\ everInterleaved' = (everInterleaved \/ OthersRunning(c))
    /\ UNCHANGED authVars
    /\ UNCHANGED <<orderVars, menuVars, catalogVars>>

\* menu.js 129-142: insert the item, .select(); the result is data[0].  The
\* store stamps created_at; a later row has a later stamp
CreateMenuItemInsert(c, resp) ==
    /\ calls[c].op = "createMenuItem" /\ calls[c].pc = "insertItem"
    /\ LET call == calls[c]
           log == Logged(call, "insert", "menu_items", resp)
           row == [id |-> ItemId(nextItemId),
                   category_id |-> call.itemData.category_id,
                   created_at |-> nextItemId,
                   name |-> call.itemData.name,
                   price |-> call.itemData.price,
                   is_available |-> call.itemData.is_available]
       IN IF resp # NoError
          THEN /\ calls' = Overlap(c, Reject([call EXCEPT !.log = log], resp))
               /\ UNCHANGED <<menu_items, nextItemId>>
          ELSE /\ menu_items' = menu_items \cup {row}
               /\ nextItemId' = nextItemId + 1
               /\ calls' = Overlap(c, Resolve([call EXCEPT !.log = log, !.data = row]))
    /\ UNCHANGED authVars
    /\ UNCHANGED <<orderVars, menuVars, categories, nextCategoryId, menu_item_addons,
                   addon_groups, addons, nextAddonId, nextGroupId, lastUpdate, callVars>>

\* ---------------------------------------------- MenuService.updateMenuItem
ItemUpdates == [name : ItemNames, price : ItemPrices]

UpdateMenuItemCall(c, itemId, updates) ==
    /\ CanStart(c)
    /\ calls' = Overlap(c, [op |-> "updateMenuItem", pc |-> "updateItem",
                            itemId |-> itemId, updates |-> updates,
                            data |-> Null, log |-> <<>>,
                            outcome |-> "pending", err |-> NoError,
                            alone |-> ~OthersRunning(c), pre |-> Store])
    /\ started' = started + 1
    /\ everInterleaved' = (everInterleaved \/ OthersRunning(c))
    /\ UNCHANGED authVars
    /\ UNCHANGED <<orderVars, menuVars, catalogVars>>

\* menu.js 145-159: update the item, .select(); the result is data[0]
UpdateMenuItemUpdate(c, resp) ==
    /\ calls[c].op = "updateMenuItem" /\ calls[c].pc = "updateItem"
    /\ LET call == calls[c]
           log == Logged(call, "update", "menu_items", resp)
           matched == Eq(menu_items, "id", call.itemId)
           updated == {[r EXCEPT !.name = call.updates.name,
                                 !.price = call.updates.price] : r \in matched}
       IN IF resp # NoError
          THEN /\ calls' = Overlap(c, Reject([call EXCEPT !.log = log], resp))
               /\ UNCHANGED menu_items
          ELSE /\ menu_items' = (menu_items \ matched) \cup updated
               /\ calls' = Overlap(c, Resolve([call EXCEPT !.log = log,
                                                          !.data = FirstOf(updated)]))
    /\ UNCHANGED <<nextItemId>>
    /\ UNCHANGED authVars
    /\ UNCHANGED <<orderVars, menuVars, categories, nextCategoryId, menu_item_addons,
                   addon_groups, addons, nextAddonId, nextGroupId, lastUpdate, callVars>>

\* ------------------------------------------ MenuService.updateItemAvailability
UpdateItemAvailabilityCall(c, itemId, isAvailable) ==
    /\ CanStart(c)
    /\ calls' = Overlap(c, [op |-> "updateItemAvailability", pc |-> "updateAvailability",
                            itemId |-> itemId, isAvailable |-> isAvailable,
                            data |-> Null, log |-> <<>>,
                            outcome |-> "pending", err |-> NoError,
                            alone |-> ~OthersRunning(c), pre |-> Store])
    /\ started' = started + 1
    /\ everInterleaved' = (everInterleaved \/ OthersRunning(c))
    /\ UNCHANGED authVars
    /\ UNCHANGED <<orderVars, menuVars, catalogVars>>

\* menu.js 162-174: update is_available of the item
UpdateItemAvailabilityUpdate(c, resp) ==
    /\ calls[c].op = "updateItemAvailability" /\ calls[c].pc = "updateAvailability"
    /\ LET call == calls[c]
           log == Logged(call, "update", "menu_items", resp)
           matched == Eq(menu_items, "id", call.itemId)
           updated == {[r EXCEPT !.is_available = call.isAvailable] : r \in matched}
       IN IF resp # NoError
          THEN /\ calls' = Overlap(c, Reject([call EXCEPT !.log = log], resp))
               /\ UNCHANGED menu_items
          ELSE /\ menu_items' = (menu_items \ matched) \cup updated
               /\ calls' = Overlap(c, Resolve([call EXCEPT !.log = log]))
    /\ UNCHANGED <<nextItemId>>
    /\ UNCHANGED authVars
    /\ UNCHANGED <<orderVars, menuVars, categories, nextCategoryId, menu_item_addons,
                   addon_groups, addons, nextAddonId, nextGroupId, lastUpdate, callVars>>

\* ---------------------------------------------- MenuService.deleteMenuItem
DeleteMenuItemCall(c, itemId) ==
    /\ CanStart(c)
    /\ calls' = Overlap(c, [op |-> "deleteMenuItem", pc |-> "deleteItem",
                            itemId |-> itemId,
                            data |-> Null, log |-> <<>>,
                            outcome |-> "pending", err |-> NoError,
                            alone |-> ~OthersRunning(c), pre |-> Store])
    /\ started' = started + 1
    /\ everInterleaved' = (everInterleaved \/ OthersRunning(c))
    /\ UNCHANGED authVars
    /\ UNCHANGED <<orderVars, menuVars, catalogVars>>

\* menu.js 177-189: delete the item; its variants and links are not touched
DeleteMenuItemDelete(c, resp) ==
    /\ calls[c].op = "deleteMenuItem" /\ calls[c].pc = "deleteItem"
    /\ LET call == calls[c]
           log == Logged(call, "delete", "menu_items", resp)
       IN IF resp # NoError
          THEN /\ calls' = Overlap(c, Reject([call EXCEPT !.log = log], resp))
               /\ UNCHANGED menu_items
          ELSE /\ menu_items' = menu_items \ Eq(menu_items, "id", call.itemId)
               /\ calls' = Overlap(c, Resolve([call EXCEPT !.log = log]))
    /\ UNCHANGED <<nextItemId>>
    /\ UNCHANGED authVars
    /\ UNCHANGED <<orderVars, menuVars, categories, nextCategoryId, menu_item_addons,
                   addon_groups, addons, nextAddonId, nextGroupId, lastUpdate, callVars>>

\* ------------------------------------------ MenuService.createMenuItemVariant
VariantDatas == [menu_item_id : MenuItemIds, name : VariantNames, display_order : {0}]

CreateMenuItemVariantCall(c, variantData) ==
    /\ CanStart(c)
    /\ calls' = Overlap(c, [op |-> "createMenuItemVariant", pc |-> "insertVariant",
                            variantData |-> variantData,
                            data |-> Null, log |-> <<>>,
                            outcome |-> "pending", err |-> NoError,
                            alone |-> ~OthersRunning(c), pre |-> Store])
    /\ started' = started + 1
    /\ everInterleaved' = (everInterleaved \/ OthersRunning(c))
    /\ UNCHANGED authVars
    /\ UNCHANGED <<orderVars, menuVars, catalogVars>>

\* menu.js 349-362: insert one variant, .select(); the result is data[0]
CreateMenuItemVariantInsert(c, resp) ==
    /\ calls[c].op = "createMenuItemVariant" /\ calls[c].pc = "insertVariant"
    /\ LET call == calls[c]
           log == Logged(call, "insert", "menu_item_variants", resp)
           row == [id |-> nextVariantId,
                   menu_item_id |-> call.variantData.menu_item_id,
                   name |-> call.variantData.name,
                   display_order |-> call.variantData.display_order,
                   addon_groups |-> <<>>]
       IN IF resp # NoError
          THEN /\ calls' = Overlap(c, Reject([call EXCEPT !.log = log], resp))
               /\ UNCHANGED <<menuVars>>
          ELSE /\ menu_item_variants' = menu_item_variants \cup {row}
               /\ nextVariantId' = nextVariantId + 1
               /\ lastSave' = NoSave
               /\ calls' = Overlap(c, Resolve([call EXCEPT !.log = log, !.data = row]))
    /\ UNCHANGED authVars
    /\ UNCHANGED <<orderVars, catalogVars, callVars>>

\* ------------------------------------------ MenuService.updateMenuItemVariant
UpdateMenuItemVariantCall(c, variantId, updates) ==
    /\ CanStart(c)
    /\ calls' = Overlap(c, [op |-> "updateMenuItemVariant", pc |-> "updateVariantRow",
                            variantId |-> variantId, updates |-> updates,
                            data |-> Null, log |-> <<>>,
                            outcome |-> "pending", err |-> NoError,
                            alone |-> ~OthersRunning(c), pre |-> Store])
    /\ started' = started + 1
    /\ everInterleaved' = (everInterleaved \/ OthersRunning(c))
    /\ UNCHANGED authVars
    /\ UNCHANGED <<orderVars, menuVars, catalogVars>>

\* menu.js 365-379: update one variant, .select(); the result is data[0]
UpdateMenuItemVariantUpdate(c, resp) ==
    /\ calls[c].op = "updateMenuItemVariant" /\ calls[c].pc = "updateVariantRow"
    /\ LET call == calls[c]
           log == Logged(call, "update", "menu_item_variants", resp)
           matched == Eq(menu_item_variants, "id", call.variantId)
           updated == {[r EXCEPT !.name = call.updates.name] : r \in matched}
       IN IF resp # NoError
          THEN /\ calls' = Overlap(c, Reject([call EXCEPT !.log = log], resp))
               /\ UNCHANGED <<menu_item_variants, lastSave>>
          ELSE /\ menu_item_variants' = (menu_item_variants \ matched) \cup updated
               /\ lastSave' = NoSave
               /\ calls' = Overlap(c, Resolve([call EXCEPT !.log = log,
                                                          !.data = FirstOf(updated)]))
    /\ UNCHANGED authVars
    /\ UNCHANGED <<orderVars, nextVariantId, catalogVars, callVars>>

\* ============================================================ AddonService
\* the ids the store assigns in addon_groups, by number
GroupId(n) == <<"g1", "g2", "g3", "g4", "g5">>[n]

menuTables == <<menu_items, menu_item_addons, lastUpdate, categories, nextCategoryId,
                nextItemId>>

\* ------------------------------------------ AddonService.createAddonGroup
GroupDatas == [name : {"extras", "sauces"}]

CreateAddonGroupCall(c, groupData) ==
    /\ CanStart(c)
    /\ calls' = Overlap(c, [op |-> "createAddonGroup", pc |-> "insertGroup",
                            groupData |-> groupData, data |-> Null, log |-> <<>>,
                            outcome |-> "pending", err |-> NoError,
                            alone |-> ~OthersRunning(c), pre |-> Store])
    /\ started' = started + 1
    /\ everInterleaved' = (everInterleaved \/ OthersRunning(c))
    /\ UNCHANGED authVars
    /\ UNCHANGED <<orderVars, menuVars, catalogVars>>

\* addon.js 67-81: insert the group, .select().single(); the result is the
\* row with item_count 0
CreateAddonGroupInsert(c, resp) ==
    /\ calls[c].op = "createAddonGroup" /\ calls[c].pc = "insertGroup"
    /\ LET call == calls[c]
           log == Logged(call, "insert", "addon_groups", resp)
           row == [id |-> GroupId(nextGroupId), name |-> call.groupData.name]
       IN IF resp # NoError
          THEN /\ calls' = Overlap(c, Reject([call EXCEPT !.log = log], resp))
               /\ UNCHANGED <<addon_groups, nextGroupId>>
          ELSE /\ addon_groups' = addon_groups \cup {row}
               /\ nextGroupId' = nextGroupId + 1
               /\ calls' = Overlap(c, Resolve([call EXCEPT
                     !.log = log,
                     !.data = [id |-> row.id, name |-> row.name, item_count |-> 0]]))
    /\ UNCHANGED authVars
    /\ UNCHANGED <<orderVars, menuVars, menuTables, addons, nextAddonId, callVars>>

\* ------------------------------------------ AddonService.updateAddonGroup
UpdateAddonGroupCall(c, groupId, groupData) ==
    /\ CanStart(c)
    /\ calls' = Overlap(c, [op |-> "updateAddonGroup", pc |-> "updateGroup",
                            groupId |-> groupId, groupData |-> groupData,
                            data |-> Null, log |-> <<>>,
                            outcome |-> "pending", err |-> NoError,
                            alone |-> ~OthersRunning(c), pre |-> Store])
    /\ started' = started + 1
    /\ everInterleaved' = (everInterleaved \/ OthersRunning(c))
    /\ UNCHANGED authVars
    /\ UNCHANGED <<orderVars, menuVars, catalogVars>>

\* addon.js 91-98: update the group, .select().single()
UpdateAddonGroupUpdate(c, resp) ==
    /\ calls[c].op = "updateAddonGroup" /\ calls[c].pc = "updateGroup"
    /\ LET call == calls[c]
           matched == Eq(addon_groups, "id", call.groupId)
           updated == {[r EXCEPT !.name = call.groupData.name] : r \in matched}
           error == IF resp # NoError THEN resp ELSE SingleError(updated)
           log == Logged(call, "update", "addon_groups", error)
       IN /\ addon_groups' = IF resp # NoError THEN addon_groups
                             ELSE (addon_groups \ matched) \cup updated
          /\ calls' = Overlap(c,
                IF error # NoError THEN Reject([call EXCEPT !.log = log], error)
                ELSE [call EXCEPT !.log = log, !.pc = "countAddons",
                                  !.data = IF updated = {} THEN Null
                                           ELSE CHOOSE r \in updated : TRUE])
    /\ UNCHANGED authVars
    /\ UNCHANGED <<orderVars, menuVars, menuTables, addons, nextAddonId, nextGroupId,
                   callVars>>

\* addon.js 100-106: count the group's addons; the error of this read is not
\* looked at, the count is then 0
UpdateAddonGroupCount(c, resp) ==
    /\ calls[c].op = "updateAddonGroup" /\ calls[c].pc = "countAddons"
    /\ LET call == calls[c]
           log == Logged(call, "select", "addons", resp)
           count == IF resp # NoError THEN 0
                    ELSE Cardinality(Eq(addons, "addon_group_id", call.groupId))
       IN calls' = Overlap(c, Resolve([call EXCEPT
             !.log = log,
             !.data = [id |-> call.data.id, name |-> call.data.name,
                       item_count |-> count]]))
    /\ UNCHANGED authVars
    /\ UNCHANGED <<orderVars, menuVars, catalogVars, callVars>>

\* ------------------------------------------ AddonService.deleteAddonGroup
DeleteAddonGroupCall(c, groupId) ==
    /\ CanStart(c)
    /\ calls' = Overlap(c, [op |-> "deleteAddonGroup", pc |-> "deleteAddons",
                            groupId |-> groupId, log |-> <<>>,
                            outcome |-> "pending", err |-> NoError,
                            alone |-> ~OthersRunning(c), pre |-> Store])
    /\ started' = started + 1
    /\ everInterleaved' = (everInterleaved \/ OthersRunning(c))
    /\ UNCHANGED authVars
    /\ UNCHANGED <<orderVars, menuVars, catalogVars>>

\* a variant that leaves the addons of the group where they are
DeleteAddonGroupDeleteAddonsSkipped(c, resp) ==
    /\ calls[c].op = "deleteAddonGroup" /\ calls[c].pc = "deleteAddons"
    /\ LET call == calls[c]
           log == Logged(call, "delete", "addons", resp)
       IN IF resp # NoError
          THEN calls' = Overlap(c, Reject([call EXCEPT !.log = log], resp))
          ELSE calls' = Overlap(c, [call EXCEPT !.log = log, !.pc = "deleteGroup"])
    /\ UNCHANGED authVars
    /\ UNCHANGED <<orderVars, menuVars, menuTables, addons, addon_groups, nextAddonId,
                   nextGroupId, callVars>>

\* a variant that goes on to the group when the delete of the addons failed
DeleteAddonGroupDeleteAddonsIgnoreError(c, resp) ==
    /\ calls[c].op = "deleteAddonGroup" /\ calls[c].pc = "deleteAddons"
    /\ LET call == calls[c]
           log == Logged(call, "delete", "addons", resp)
       IN /\ addons' = IF resp # NoError THEN addons
                       ELSE addons \ Eq(addons, "addon_group_id", call.groupId)
          /\ calls' = Overlap(c, [call EXCEPT !.log = log, !.pc = "deleteGroup"])
    /\ UNCHANGED authVars
    /\ UNCHANGED <<orderVars, menuVars, menuTables, addon_groups, nextAddonId,
                   nextGroupId, callVars>>

\* addon.js 120-126: first delete the addons of the group
DeleteAddonGroupDeleteAddons(c, resp) ==
    /\ calls[c].op = "deleteAddonGroup" /\ calls[c].pc = "deleteAddons"
    /\ LET call == calls[c]
           log == Logged(call, "delete", "addons", resp)
       IN IF resp # NoError
          THEN /\ calls' = Overlap(c, Reject([call EXCEPT !.log = log], resp))
               /\ UNCHANGED addons
          ELSE /\ addons' = addons \ Eq(addons, "addon_group_id", call.groupId)
               /\ calls' = Overlap(c, [call EXCEPT !.log = log, !.pc = "deleteGroup"])
    /\ UNCHANGED authVars
    /\ UNCHANGED <<orderVars, menuVars, menuTables, addon_groups, nextAddonId,
                   nextGroupId, callVars>>

\* a variant that removes the links of the group with it
DeleteAddonGroupDeleteGroupCascading(c, resp) ==
    /\ calls[c].op = "deleteAddonGroup" /\ calls[c].pc = "deleteGroup"
    /\ LET call == calls[c]
           log == Logged(call, "delete", "addon_groups", resp)
       IN IF resp # NoError
          THEN /\ calls' = Overlap(c, Reject([call EXCEPT !.log = log], resp))
               /\ UNCHANGED <<addon_groups, menu_item_addons>>
          ELSE /\ addon_groups' = addon_groups \ Eq(addon_groups, "id", call.groupId)
               /\ menu_item_addons' =
                     menu_item_addons \ Eq(menu_item_addons, "addon_group_id", call.groupId)
               /\ calls' = Overlap(c, Resolve([call EXCEPT !.log = log]))
    /\ UNCHANGED authVars
    /\ UNCHANGED <<orderVars, menuVars, menu_items, lastUpdate, categories,
                   nextCategoryId, nextItemId, addons, nextAddonId, nextGroupId,
                   callVars>>

\* addon.js 128-134: then delete the group
DeleteAddonGroupDeleteGroup(c, resp) ==
    /\ calls[c].op = "deleteAddonGroup" /\ calls[c].pc = "deleteGroup"
    /\ LET call == calls[c]
           log == Logged(call, "delete", "addon_groups", resp)
       IN IF resp # NoError
          THEN /\ calls' = Overlap(c, Reject([call EXCEPT !.log = log], resp))
               /\ UNCHANGED addon_groups
          ELSE /\ addon_groups' = addon_groups \ Eq(addon_groups, "id", call.groupId)
               /\ calls' = Overlap(c, Resolve([call EXCEPT !.log = log]))
    /\ UNCHANGED authVars
    /\ UNCHANGED <<orderVars, menuVars, menuTables, addons, nextAddonId, nextGroupId,
                   callVars>>

\* ------------------------------------------------ AddonService.createAddon
AddonDatas == [addon_group_id : AddonGroupIds, name : AddonNames]

CreateAddonCall(c, addonData) ==
    /\ CanStart(c)
    /\ calls' = Overlap(c, [op |-> "createAddon", pc |-> "insertAddon",
                            addonData |-> addonData, data |-> Null, log |-> <<>>,
                            seen |-> {},
                            outcome |-> "pending", err |-> NoError,
                            alone |-> ~OthersRunning(c), pre |-> Store])
    /\ started' = started + 1
    /\ everInterleaved' = (everInterleaved \/ OthersRunning(c))
    /\ UNCHANGED authVars
    /\ UNCHANGED <<orderVars, menuVars, catalogVars>>

\* addon.js 146-160: insert the addon, .select().single(); seen is history,
\* the groups that existed when the store answered
CreateAddonInsert(c, resp) ==
    /\ calls[c].op = "createAddon" /\ calls[c].pc = "insertAddon"
    /\ LET call == calls[c]
           log == Logged(call, "insert", "addons", resp)
           row == [id |-> nextAddonId,
                   addon_group_id |-> call.addonData.addon_group_id,
                   name |-> call.addonData.name]
       IN IF resp # NoError
          THEN /\ calls' = Overlap(c, Reject([call EXCEPT !.log = log], resp))
               /\ UNCHANGED <<addons, nextAddonId>>
          ELSE /\ addons' = addons \cup {row}
               /\ nextAddonId' = nextAddonId + 1
               /\ calls' = Overlap(c, Resolve([call EXCEPT !.log = log, !.data = row,
                                                          !.seen = addon_groups]))
    /\ UNCHANGED authVars
    /\ UNCHANGED <<orderVars, menuVars, menuTables, addon_groups, nextGroupId,
                   callVars>>

\* ------------------------------------------------ AddonService.updateAddon
AddonUpdates == [name : AddonNames]

UpdateAddonCall(c, addonId, addonData) ==
    /\ CanStart(c)
    /\ calls' = Overlap(c, [op |-> "updateAddon", pc |-> "updateAddon",
                            addonId |-> addonId, addonData |-> addonData,
                            data |-> Null, log |-> <<>>,
                            outcome |-> "pending", err |-> NoError,
                            alone |-> ~OthersRunning(c), pre |-> Store])
    /\ started' = started + 1
    /\ everInterleaved' = (everInterleaved \/ OthersRunning(c))
    /\ UNCHANGED authVars
    /\ UNCHANGED <<orderVars, menuVars, catalogVars>>

\* addon.js 168-183: update the addon, .select().single()
UpdateAddonUpdate(c, resp) ==
    /\ calls[c].op = "updateAddon" /\ calls[c].pc = "updateAddon"
    /\ LET call == calls[c]
           matched == Eq(addons, "id", call.addonId)
           updated == {[r EXCEPT !.name = call.addonData.name] : r \in matched}
           error == IF resp # NoError THEN resp ELSE SingleError(updated)
           log == Logged(call, "update", "addons", error)
       IN /\ addons' = IF resp # NoError THEN addons ELSE (addons \ matched) \cup updated
          /\ calls' = Overlap(c,
                IF error # NoError THEN Reject([call EXCEPT !.log = log], error)
                ELSE Resolve([call EXCEPT !.log = log,
                                          !.data = IF updated = {} THEN Null
                                                   ELSE CHOOSE r \in updated : TRUE]))
    /\ UNCHANGED authVars
    /\ UNCHANGED <<orderVars, menuVars, menuTables, addon_groups, nextAddonId,
                   nextGroupId, callVars>>

\* ------------------------------------------------ AddonService.deleteAddon
DeleteAddonCall(c, addonId) ==
    /\ CanStart(c)
    /\ calls' = Overlap(c, [op |-> "deleteAddon", pc |-> "deleteAddon",
                            addonId |-> addonId, log |-> <<>>,
                            outcome |-> "pending", err |-> NoError,
                            alone |-> ~OthersRunning(c), pre |-> Store])
    /\ started' = started + 1
    /\ everInterleaved' = (everInterleaved \/ OthersRunning(c))
    /\ UNCHANGED authVars
    /\ UNCHANGED <<orderVars, menuVars, catalogVars>>

\* addon.js 190-202: delete the addon; an id without a row is no error
DeleteAddonDelete(c, resp) ==
    /\ calls[c].op = "deleteAddon" /\ calls[c].pc = "deleteAddon"
    /\ LET call == calls[c]
           log == Logged(call, "delete", "addons", resp)
       IN IF resp # NoError
          THEN /\ calls' = Overlap(c, Reject([call EXCEPT !.log = log], resp))
               /\ UNCHANGED addons
          ELSE /\ addons' = addons \ Eq(addons, "id", call.addonId)
               /\ calls' = Overlap(c, Resolve([call EXCEPT !.log = log]))
    /\ UNCHANGED authVars
    /\ UNCHANGED <<orderVars, menuVars, menuTables, addon_groups, nextAddonId,
                   nextGroupId, callVars>>

\* ------------------------------------------------------------ the system
\* the rows the store holds when the clients start: nothing, or one order
\* with two items of which the first has one add-on, and an order without items
InitOrderStores ==
    { [orders |-> {}, order_items |-> {}, order_item_addons |-> {}],
      [orders |-> {[id |-> 1, restaurant_id |-> "r1", status |-> "pending",
                    order_number |-> OrderNumber(1699000001)],
                   [id |-> 2, restaurant_id |-> "r2", status |-> "completed",
                    order_number |-> OrderNumber(1699000002)]},
       order_items |-> {[id |-> 1, order_id |-> 1, menu_item_id |-> "m1",
                         item_price |-> 5],
                        [id |-> 2, order_id |-> 1, menu_item_id |-> "m1",
                         item_price |-> 5]},
       order_item_addons |-> {[id |-> 1, order_item_id |-> 1]}] }

MaxId(rows) == IF rows = {} THEN 0 ELSE CHOOSE n \in {r.id : r \in rows} :
                                            \A r \in rows : r.id <= n

\* the state the order operations start in: one of the order stores, an empty
\* variant table, no call in progress
InitOrders ==
    /\ \E s \in InitOrderStores :
          /\ orders = s.orders
          /\ order_items = s.order_items
          /\ order_item_addons = s.order_item_addons
    /\ nextOrderId = MaxId(orders) + 1
    /\ nextOrderItemId = MaxId(order_items) + 1
    /\ menu_item_variants = {}
    /\ nextVariantId = 1
    /\ lastSave = NoSave
    /\ menu_items = {}
    /\ nextItemId = 1
    /\ categories = {}
    /\ nextCategoryId = 1
    /\ menu_item_addons = {}
    /\ addon_groups = {}
    /\ addons = {}
    /\ nextAddonId = 1
    /\ nextGroupId = 1
    /\ lastUpdate = NoUpdate
    /\ calls = [c \in Clients |-> Idle]
    /\ started = 0
    /\ everInterleaved = FALSE
    /\ auth_users = Owners
    /\ restaurants = OwnedRestaurants

\* ids a caller may pass to deleteOrder: a present, a removed or a future one
OrderIds == 1..MaxOrderId

NextOrders ==
    \/ \E c \in Clients : \E orderData \in OrderDatas :
          /\ nextOrderId <= MaxOrderId
          /\ nextOrderItemId + Len(orderData.order_items) <= MaxOrderItemId + 1
          /\ \E now \in OneTime : CreateOrderCall(c, orderData, now)
    \/ \E c \in Clients : \E resp \in StoreOutcomes : CreateOrderInsertOrder(c, resp)
    \/ \E c \in Clients : \E resp \in StoreOutcomes : CreateOrderInsertItems(c, resp)
    \/ \E c \in Clients : \E orderId \in OrderIds : DeleteOrderCall(c, orderId)
    \/ \E c \in Clients : \E resp \in StoreOutcomes : DeleteOrderFetchOrder(c, resp)
    \/ \E c \in Clients : \E resp \in StoreOutcomes : DeleteOrderFetchItems(c, resp)
    \/ \E c \in Clients : \E resp \in StoreOutcomes : DeleteOrderDeleteAddons(c, resp)
    \/ \E c \in Clients : \E resp \in StoreOutcomes : DeleteOrderDeleteItems(c, resp)
    \/ \E c \in Clients : \E resp \in StoreOutcomes : DeleteOrderDeleteOrder(c, resp)

SpecOrders == InitOrders /\ [][NextOrders]_vars

\* creating orders and moving them between statuses
NextStatus ==
    \/ \E c \in Clients : \E orderData \in OrderDatas :
          /\ nextOrderId <= MaxOrderId
          /\ nextOrderItemId + Len(orderData.order_items) <= MaxOrderItemId + 1
          /\ \E now \in OneTime : CreateOrderCall(c, orderData, now)
    \/ \E c \in Clients : \E resp \in StoreOutcomes : CreateOrderInsertOrder(c, resp)
    \/ \E c \in Clients : \E resp \in StoreOutcomes : CreateOrderInsertItems(c, resp)
    \/ \E c \in Clients : \E orderId \in OrderIds : \E status \in OrderStatuses :
          UpdateOrderStatusCall(c, orderId, status)
    \/ \E c \in Clients : \E resp \in StoreOutcomes : UpdateOrderStatusUpdate(c, resp)

SpecStatus == InitOrders /\ [][NextStatus]_vars

\* the variant rows the store holds when the clients start: none, or an item
\* with two variants of the same display_order and an item with one variant
InitVariantStores ==
    { {},
      { [id |-> 1, menu_item_id |-> "m1", name |-> "large", display_order |-> 3,
         addon_groups |-> <<"g1">>],
        [id |-> 2, menu_item_id |-> "m1", name |-> "small", display_order |-> 3,
         addon_groups |-> <<>>],
        [id |-> 3, menu_item_id |-> "m2", name |-> "small", display_order |-> 0,
         addon_groups |-> <<>>] } }

\* the state the menu operations start in: one of the variant stores, an
\* empty order store, no call in progress
InitMenu ==
    /\ menu_item_variants \in InitVariantStores
    /\ nextVariantId = MaxId(menu_item_variants) + 1
    /\ lastSave = NoSave
    /\ orders = {}
    /\ order_items = {}
    /\ order_item_addons = {}
    /\ nextOrderId = 1
    /\ nextOrderItemId = 1
    /\ menu_items = {}
    /\ nextItemId = 1
    /\ categories = {}
    /\ nextCategoryId = 1
    /\ menu_item_addons = {}
    /\ addon_groups = {}
    /\ addons = {}
    /\ nextAddonId = 1
    /\ nextGroupId = 1
    /\ lastUpdate = NoUpdate
    /\ calls = [c \in Clients |-> Idle]
    /\ started = 0
    /\ everInterleaved = FALSE
    /\ auth_users = Owners
    /\ restaurants = OwnedRestaurants

NextMenu ==
    \/ \E c \in Clients : \E menuItemId \in MenuItemIds :
          GetMenuItemVariantsCall(c, menuItemId)
    \/ \E c \in Clients : \E resp \in StoreOutcomes : GetMenuItemVariantsSelect(c, resp)
    \/ \E c \in Clients : \E resp \in StoreOutcomes : GetMenuItemVariantsLoadGroups(c, resp)
    \/ \E c \in Clients : \E menuItemId \in MenuItemIds : \E variants \in VariantLists :
          /\ nextVariantId + Len(variants) <= MaxVariantId + 1
          /\ SaveMenuItemVariantsCall(c, menuItemId, variants)
    \/ \E c \in Clients : SaveMenuItemVariantsGetUser(c)
    \/ \E c \in Clients : \E resp \in StoreOutcomes : SaveMenuItemVariantsDelete(c, resp)
    \/ \E c \in Clients : \E resp \in StoreOutcomes : SaveMenuItemVariantsInsert(c, resp)

SpecMenu == InitMenu /\ [][NextMenu]_vars

\* the catalog the association operations start on: two items of one
\* category, each with a variant that has its own groups, and the link table
\* filled for both items
InitAssoc ==
    /\ categories = {[id |-> "cat1", restaurant_id |-> "r1", name |-> "mains",
                       display_order |-> 0]}
    /\ nextCategoryId = 2
    /\ menu_items = {[id |-> "m1", category_id |-> "cat1", created_at |-> 1,
                       name |-> "pizza", price |-> 7, is_available |-> TRUE],
                     [id |-> "m2", category_id |-> "cat1", created_at |-> 2,
                       name |-> "pasta", price |-> 7, is_available |-> TRUE]}
    /\ nextItemId = 3
    /\ menu_item_variants =
          {[id |-> 1, menu_item_id |-> "m1", name |-> "small", display_order |-> 0,
            addon_groups |-> <<"g1">>],
           [id |-> 3, menu_item_id |-> "m2", name |-> "small", display_order |-> 0,
            addon_groups |-> <<"g2", "g1">>]}
    /\ menu_item_addons = {[menu_item_id |-> "m1", addon_group_id |-> "g1"],
                           [menu_item_id |-> "m2", addon_group_id |-> "g1"],
                           [menu_item_id |-> "m2", addon_group_id |-> "g2"]}
    /\ nextVariantId = 4
    /\ lastSave = NoSave
    /\ lastUpdate = NoUpdate
    /\ orders = {}
    /\ order_items = {}
    /\ order_item_addons = {}
    /\ nextOrderId = 1
    /\ nextOrderItemId = 1
    /\ addon_groups = {}
    /\ addons = {}
    /\ nextAddonId = 1
    /\ nextGroupId = 1
    /\ calls = [c \in Clients |-> Idle]
    /\ started = 0
    /\ everInterleaved = FALSE
    /\ auth_users = Owners
    /\ restaurants = OwnedRestaurants

\* the variant ids the callers pass: two rows of different items, and no row
VariantIds == {1, 3, 4}

NextAssoc ==
    \/ \E c \in Clients : \E variantId \in VariantIds :
          GetVariantAddonGroupsCall(c, variantId)
    \/ \E c \in Clients : \E resp \in StoreOutcomes : GetVariantAddonGroupsSelect(c, resp)
    \/ \E c \in Clients : \E variantId \in VariantIds :
          \E addonGroupIds \in GroupIdLists :
             UpdateVariantAddonGroupsCall(c, variantId, addonGroupIds)
    \/ \E c \in Clients : \E resp \in StoreOutcomes :
          UpdateVariantAddonGroupsUpdate(c, resp)
    \/ \E c \in Clients : \E menuItemId \in MenuItemIds :
          \E addonGroupIds \in GroupIdLists :
             UpdateMenuItemAddonGroupsCall(c, menuItemId, addonGroupIds)
    \/ \E c \in Clients : \E resp \in StoreOutcomes :
          UpdateMenuItemAddonGroupsDelete(c, resp)
    \/ \E c \in Clients : \E resp \in StoreOutcomes :
          UpdateMenuItemAddonGroupsInsert(c, resp)

SpecAssoc == InitAssoc /\ [][NextAssoc]_vars

\* reading the catalog while the variants' groups are updated
NextCatalog ==
    \/ \E c \in Clients : \E variantId \in VariantIds :
          \E addonGroupIds \in GroupIdLists :
             UpdateVariantAddonGroupsCall(c, variantId, addonGroupIds)
    \/ \E c \in Clients : \E resp \in StoreOutcomes :
          UpdateVariantAddonGroupsUpdate(c, resp)
    \/ \E c \in Clients : \E categoryId \in Categories : GetMenuItemsCall(c, categoryId)
    \/ \E c \in Clients : \E resp \in StoreOutcomes : GetMenuItemsSelectItems(c, resp)
    \/ \E c \in Clients : \E resp \in StoreOutcomes : GetMenuItemsSelectVariants(c, resp)
    \/ \E c \in Clients : \E resp \in StoreOutcomes : GetMenuItemsInnerGroups(c, resp)
    \/ \E c \in Clients : \E resp \in StoreOutcomes : GetMenuItemsOuterGroups(c, resp)

SpecCatalog == InitAssoc /\ [][NextCatalog]_vars

\* saving an item's variants, with groups in the input, after or while the
\* groups of variants are set; the save is the last call of a run
NextRegroup ==
    \/ \E c \in Clients : \E variantId \in VariantIds :
          \E addonGroupIds \in GroupIdLists :
             /\ started < MaxWrites
             /\ UpdateVariantAddonGroupsCall(c, variantId, addonGroupIds)
    \/ \E c \in Clients : \E resp \in StoreOutcomes :
          UpdateVariantAddonGroupsUpdate(c, resp)
    \/ \E c \in Clients : \E menuItemId \in MenuItemIds :
          \E variants \in GroupedVariantLists :
             /\ started = MaxCalls - 1
             /\ nextVariantId + Len(variants) <= MaxVariantId + 1
             /\ SaveMenuItemVariantsCall(c, menuItemId, variants)
    \/ \E c \in Clients : SaveMenuItemVariantsGetUser(c)
    \/ \E c \in Clients : \E resp \in StoreOutcomes : SaveMenuItemVariantsDelete(c, resp)
    \/ \E c \in Clients : \E resp \in StoreOutcomes : SaveMenuItemVariantsInsert(c, resp)

SpecRegroup == InitAssoc /\ [][NextRegroup]_vars

\* the add-on catalog the AddonService operations start on: two groups, the
\* first with two addons, and an item and a variant that reference the first
InitAddons ==
    /\ addon_groups = {[id |-> "g1", name |-> "extras"],
                       [id |-> "g2", name |-> "sauces"]}
    /\ addons = {[id |-> 1, addon_group_id |-> "g1", name |-> "cheese"],
                 [id |-> 2, addon_group_id |-> "g1", name |-> "bacon"],
                 [id |-> 3, addon_group_id |-> "g2", name |-> "cheese"]}
    /\ nextAddonId = 4
    /\ nextGroupId = 3
    /\ categories = {[id |-> "cat1", restaurant_id |-> "r1", name |-> "mains",
                       display_order |-> 0]}
    /\ nextCategoryId = 2
    /\ menu_items = {[id |-> "m1", category_id |-> "cat1", created_at |-> 1,
                       name |-> "pizza", price |-> 7, is_available |-> TRUE]}
    /\ nextItemId = 2
    /\ menu_item_variants =
          {[id |-> 1, menu_item_id |-> "m1", name |-> "small", display_order |-> 0,
            addon_groups |-> <<"g1">>]}
    /\ menu_item_addons = {[menu_item_id |-> "m1", addon_group_id |-> "g1"]}
    /\ nextVariantId = 2
    /\ lastSave = NoSave
    /\ lastUpdate = NoUpdate
    /\ orders = {}
    /\ order_items = {}
    /\ order_item_addons = {}
    /\ nextOrderId = 1
    /\ nextOrderItemId = 1
    /\ calls = [c \in Clients |-> Idle]
    /\ started = 0
    /\ everInterleaved = FALSE
    /\ auth_users = Owners
    /\ restaurants = OwnedRestaurants

\* the addon ids the callers pass: a row of each group
AddonIds == {1, 3}

NextAddons ==
    \/ \E c \in Clients : \E groupData \in GroupDatas :
          /\ nextGroupId <= MaxGroupId
          /\ CreateAddonGroupCall(c, groupData)
    \/ \E c \in Clients : \E resp \in StoreOutcomes : CreateAddonGroupInsert(c, resp)
    \/ \E c \in Clients : \E groupId \in AddonGroupIds : \E groupData \in GroupDatas :
          UpdateAddonGroupCall(c, groupId, groupData)
    \/ \E c \in Clients : \E resp \in StoreOutcomes : UpdateAddonGroupUpdate(c, resp)
    \/ \E c \in Clients : \E resp \in StoreOutcomes : UpdateAddonGroupCount(c, resp)
    \/ \E c \in Clients : \E groupId \in AddonGroupIds : DeleteAddonGroupCall(c, groupId)
    \/ \E c \in Clients : \E resp \in StoreOutcomes :
          DeleteAddonGroupDeleteAddons(c, resp)
    \/ \E c \in Clients : \E resp \in StoreOutcomes :
          DeleteAddonGroupDeleteGroup(c, resp)
    \/ \E c \in Clients : \E addonData \in AddonDatas :
          /\ nextAddonId <= MaxAddonId
          /\ CreateAddonCall(c, addonData)
    \/ \E c \in Clients : \E resp \in StoreOutcomes : CreateAddonInsert(c, resp)
    \/ \E c \in Clients : \E addonId \in AddonIds : \E addonData \in AddonUpdates :
          UpdateAddonCall(c, addonId, addonData)
    \/ \E c \in Clients : \E resp \in StoreOutcomes : UpdateAddonUpdate(c, resp)
    \/ \E c \in Clients : \E addonId \in AddonIds : DeleteAddonCall(c, addonId)
    \/ \E c \in Clients : \E resp \in StoreOutcomes : DeleteAddonDelete(c, resp)

SpecAddons == InitAddons /\ [][NextAddons]_vars

\* order specifications whose items carry add-ons (the same ones for every
\* item of an order)
OrderDatasWithAddons ==
    {[orderData EXCEPT !.order_items =
         [i \in 1..Len(orderData.order_items) |->
             [menu_item_id |-> orderData.order_items[i].menu_item_id,
              item_price |-> orderData.order_items[i].item_price,
              addons |-> chosen]]] :
        orderData \in OrderDatas, chosen \in SUBSET AddonIds}

\* orders whose items carry add-ons are created on the order stores
NextOrderAddons ==
    \/ \E c \in Clients : \E orderData \in OrderDatasWithAddons :
          /\ nextOrderId <= MaxOrderId
          /\ nextOrderItemId + Len(orderData.order_items) <= MaxOrderItemId + 1
          /\ \E now \in OneTime : CreateOrderCall(c, orderData, now)
    \/ \E c \in Clients : \E resp \in StoreOutcomes : CreateOrderInsertOrder(c, resp)
    \/ \E c \in Clients : \E resp \in StoreOutcomes : CreateOrderInsertItems(c, resp)

SpecOrderAddons == InitOrders /\ [][NextOrderAddons]_vars

\* the store the write operations of the three services start on: a
\* category with two items and their variants and links, two add-on groups
\* with addons, and two orders, one with two items and an add-on
InitWrites ==
    /\ categories = {[id |-> "cat1", restaurant_id |-> "r1", name |-> "mains",
                       display_order |-> 0]}
    /\ nextCategoryId = 2
    /\ menu_items = {[id |-> "m1", category_id |-> "cat1", created_at |-> 1,
                       name |-> "pizza", price |-> 7, is_available |-> TRUE],
                     [id |-> "m2", category_id |-> "cat1", created_at |-> 2,
                       name |-> "pasta", price |-> 7, is_available |-> TRUE]}
    /\ nextItemId = 3
    /\ menu_item_variants =
          {[id |-> 1, menu_item_id |-> "m1", name |-> "small", display_order |-> 0,
            addon_groups |-> <<"g1">>],
           [id |-> 3, menu_item_id |-> "m2", name |-> "small", display_order |-> 0,
            addon_groups |-> <<"g2", "g1">>]}
    /\ nextVariantId = 4
    /\ menu_item_addons = {[menu_item_id |-> "m1", addon_group_id |-> "g1"],
                           [menu_item_id |-> "m2", addon_group_id |-> "g2"]}
    /\ addon_groups = {[id |-> "g1", name |-> "extras"],
                       [id |-> "g2", name |-> "sauces"]}
    /\ addons = {[id |-> 1, addon_group_id |-> "g1", name |-> "cheese"],
                 [id |-> 3, addon_group_id |-> "g2", name |-> "cheese"]}
    /\ nextAddonId = 4
    /\ nextGroupId = 3
    /\ orders = {[id |-> 1, restaurant_id |-> "r1", status |-> "pending",
                  order_number |-> OrderNumber(1699000001)],
                 [id |-> 2, restaurant_id |-> "r2", status |-> "completed",
                  order_number |-> OrderNumber(1699000002)]}
    /\ order_items = {[id |-> 1, order_id |-> 1, menu_item_id |-> "m1",
                         item_price |-> 5],
                      [id |-> 2, order_id |-> 1, menu_item_id |-> "m1",
                         item_price |-> 5]}
    /\ order_item_addons = {[id |-> 1, order_item_id |-> 1]}
    /\ nextOrderId = 3
    /\ nextOrderItemId = 3
    /\ lastSave = NoSave
    /\ lastUpdate = NoUpdate
    /\ calls = [c \in Clients |-> Idle]
    /\ started = 0
    /\ everInterleaved = FALSE
    /\ auth_users = Owners
    /\ restaurants = OwnedRestaurants

\* every write and delete operation of MenuService, OrdersService and
\* AddonService
NextWrites ==
    \/ \E c \in Clients : \E orderData \in OrderDatas :
          /\ started < MaxWrites
          /\ nextOrderId <= MaxOrderId
          /\ nextOrderItemId + Len(orderData.order_items) <= MaxOrderItemId + 1
          /\ \E now \in OneTime : CreateOrderCall(c, orderData, now)
    \/ \E c \in Clients : \E orderId \in OrderIds :
          /\ started < MaxWrites
          /\ DeleteOrderCall(c, orderId)
    \/ \E c \in Clients : \E orderId \in OrderIds : \E status \in OrderStatuses :
          /\ started < MaxWrites
          /\ UpdateOrderStatusCall(c, orderId, status)
    \/ \E c \in Clients : \E menuItemId \in MenuItemIds : \E variants \in VariantLists :
          /\ started < MaxWrites
          /\ nextVariantId + Len(variants) <= MaxVariantId + 1
          /\ SaveMenuItemVariantsCall(c, menuItemId, variants)
    \/ \E c \in Clients : \E variantId \in VariantIds : \E addonGroupIds \in GroupIdLists :
          /\ started < MaxWrites
          /\ UpdateVariantAddonGroupsCall(c, variantId, addonGroupIds)
    \/ \E c \in Clients : \E menuItemId \in MenuItemIds : \E addonGroupIds \in GroupIdLists :
          /\ started < MaxWrites
          /\ UpdateMenuItemAddonGroupsCall(c, menuItemId, addonGroupIds)
    \/ \E c \in Clients : \E categoryData \in CategoryDatas :
          /\ started < MaxWrites
          /\ nextCategoryId <= MaxCategoryId
          /\ CreateCategoryCall(c, categoryData)
    \/ \E c \in Clients : \E categoryId \in Categories : \E updates \in CategoryUpdates :
          /\ started < MaxWrites
          /\ UpdateCategoryCall(c, categoryId, updates)
    \/ \E c \in Clients : \E categoryId \in Categories :
          /\ started < MaxWrites
          /\ DeleteCategoryCall(c, categoryId)
    \/ \E c \in Clients : \E itemData \in ItemDatas :
          /\ started < MaxWrites
          /\ nextItemId <= MaxItemId
          /\ CreateMenuItemCall(c, itemData)
    \/ \E c \in Clients : \E itemId \in MenuItemIds : \E updates \in ItemUpdates :
          /\ started < MaxWrites
          /\ UpdateMenuItemCall(c, itemId, updates)
    \/ \E c \in Clients : \E itemId \in MenuItemIds : \E isAvailable \in BOOLEAN :
          /\ started < MaxWrites
          /\ UpdateItemAvailabilityCall(c, itemId, isAvailable)
    \/ \E c \in Clients : \E itemId \in MenuItemIds :
          /\ started < MaxWrites
          /\ DeleteMenuItemCall(c, itemId)
    \/ \E c \in Clients : \E variantData \in VariantDatas :
          /\ started < MaxWrites
          /\ nextVariantId <= MaxVariantId
          /\ CreateMenuItemVariantCall(c, variantData)
    \/ \E c \in Clients : \E variantId \in VariantIds : \E updates \in [name : VariantNames] :
          /\ started < MaxWrites
          /\ UpdateMenuItemVariantCall(c, variantId, updates)
    \/ \E c \in Clients : \E groupData \in GroupDatas :
          /\ started < MaxWrites
          /\ nextGroupId <= MaxGroupId
          /\ CreateAddonGroupCall(c, groupData)
    \/ \E c \in Clients : \E groupId \in AddonGroupIds : \E groupData \in GroupDatas :
          /\ started < MaxWrites
          /\ UpdateAddonGroupCall(c, groupId, groupData)
    \/ \E c \in Clients : \E groupId \in AddonGroupIds :
          /\ started < MaxWrites
          /\ DeleteAddonGroupCall(c, groupId)
    \/ \E c \in Clients : \E addonData \in AddonDatas :
          /\ started < MaxWrites
          /\ nextAddonId <= MaxAddonId
          /\ CreateAddonCall(c, addonData)
    \/ \E c \in Clients : \E addonId \in AddonIds : \E addonData \in AddonUpdates :
          /\ started < MaxWrites
          /\ UpdateAddonCall(c, addonId, addonData)
    \/ \E c \in Clients : \E addonId \in AddonIds :
          /\ started < MaxWrites
          /\ DeleteAddonCall(c, addonId)
    \/ \E c \in Clients : SaveMenuItemVariantsGetUser(c)
    \/ \E c \in Clients : \E resp \in StoreOutcomes : CreateOrderInsertOrder(c, resp)
    \/ \E c \in Clients : \E resp \in StoreOutcomes : CreateOrderInsertItems(c, resp)
    \/ \E c \in Clients : \E resp \in StoreOutcomes : DeleteOrderFetchOrder(c, resp)
    \/ \E c \in Clients : \E resp \in StoreOutcomes : DeleteOrderFetchItems(c, resp)
    \/ \E c \in Clients : \E resp \in StoreOutcomes : DeleteOrderDeleteAddons(c, resp)
    \/ \E c \in Clients : \E resp \in StoreOutcomes : DeleteOrderDeleteItems(c, resp)
    \/ \E c \in Clients : \E resp \in StoreOutcomes : DeleteOrderDeleteOrder(c, resp)
    \/ \E c \in Clients : \E resp \in StoreOutcomes : UpdateOrderStatusUpdate(c, resp)
    \/ \E c \in Clients : \E resp \in StoreOutcomes : SaveMenuItemVariantsDelete(c, resp)
    \/ \E c \in Clients : \E resp \in StoreOutcomes : SaveMenuItemVariantsInsert(c, resp)
    \/ \E c \in Clients : \E resp \in StoreOutcomes : UpdateVariantAddonGroupsUpdate(c, resp)
    \/ \E c \in Clients : \E resp \in StoreOutcomes : UpdateMenuItemAddonGroupsDelete(c, resp)
    \/ \E c \in Clients : \E resp \in StoreOutcomes : UpdateMenuItemAddonGroupsInsert(c, resp)
    \/ \E c \in Clients : \E resp \in StoreOutcomes : CreateCategoryInsert(c, resp)
    \/ \E c \in Clients : \E resp \in StoreOutcomes : UpdateCategoryUpdate(c, resp)
    \/ \E c \in Clients : \E resp \in StoreOutcomes : DeleteCategoryDelete(c, resp)
    \/ \E c \in Clients : \E resp \in StoreOutcomes : CreateMenuItemInsert(c, resp)
    \/ \E c \in Clients : \E resp \in StoreOutcomes : UpdateMenuItemUpdate(c, resp)
    \/ \E c \in Clients : \E resp \in StoreOutcomes : UpdateItemAvailabilityUpdate(c, resp)
    \/ \E c \in Clients : \E resp \in StoreOutcomes : DeleteMenuItemDelete(c, resp)
    \/ \E c \in Clients : \E resp \in StoreOutcomes : CreateMenuItemVariantInsert(c, resp)
    \/ \E c \in Clients : \E resp \in StoreOutcomes : UpdateMenuItemVariantUpdate(c, resp)
    \/ \E c \in Clients : \E resp \in StoreOutcomes : CreateAddonGroupInsert(c, resp)
    \/ \E c \in Clients : \E resp \in StoreOutcomes : UpdateAddonGroupUpdate(c, resp)
    \/ \E c \in Clients : \E resp \in StoreOutcomes : UpdateAddonGroupCount(c, resp)
    \/ \E c \in Clients : \E resp \in StoreOutcomes : DeleteAddonGroupDeleteAddons(c, resp)
    \/ \E c \in Clients : \E resp \in StoreOutcomes : DeleteAddonGroupDeleteGroup(c, resp)
    \/ \E c \in Clients : \E resp \in StoreOutcomes : CreateAddonInsert(c, resp)
    \/ \E c \in Clients : \E resp \in StoreOutcomes : UpdateAddonUpdate(c, resp)
    \/ \E c \in Clients : \E resp \in StoreOutcomes : DeleteAddonDelete(c, resp)

SpecWrites == InitWrites /\ [][NextWrites]_vars

\* the catalog and the orders the price checks start on: an item with a
\* catalog price and two variants, and an order that bought it for less
InitPrices ==
    /\ categories = {[id |-> "cat1", restaurant_id |-> "r1", name |-> "mains",
                       display_order |-> 0]}
    /\ nextCategoryId = 2
    /\ menu_items = {[id |-> "m1", category_id |-> "cat1", created_at |-> 1,
                       name |-> "pizza", price |-> 7, is_available |-> TRUE]}
    /\ nextItemId = 2
    /\ menu_item_variants =
          {[id |-> 1, menu_item_id |-> "m1", name |-> "small", display_order |-> 0,
            addon_groups |-> <<"g1">>]}
    /\ nextVariantId = 2
    /\ menu_item_addons = {}
    /\ addon_groups = {}
    /\ addons = {}
    /\ nextAddonId = 1
    /\ nextGroupId = 1
    /\ orders = {[id |-> 1, restaurant_id |-> "r1", status |-> "pending",
                  order_number |-> OrderNumber(1699000001)]}
    /\ order_items = {[id |-> 1, order_id |-> 1, menu_item_id |-> "m1",
                       item_price |-> 5]}
    /\ order_item_addons = {}
    /\ nextOrderId = 2
    /\ nextOrderItemId = 2
    /\ lastSave = NoSave
    /\ lastUpdate = NoUpdate
    /\ calls = [c \in Clients |-> Idle]
    /\ started = 0
    /\ everInterleaved = FALSE
    /\ auth_users = Owners
    /\ restaurants = OwnedRestaurants

\* orders are created while the catalog is edited
NextPrices ==
    \/ \E c \in Clients : \E orderData \in OrderDatas :
          /\ nextOrderId <= MaxOrderId
          /\ nextOrderItemId + Len(orderData.order_items) <= MaxOrderItemId + 1
          /\ \E now \in OneTime : CreateOrderCall(c, orderData, now)
    \/ \E c \in Clients : \E resp \in StoreOutcomes : CreateOrderInsertOrder(c, resp)
    \/ \E c \in Clients : \E resp \in StoreOutcomes : CreateOrderInsertItems(c, resp)
    \/ \E c \in Clients : \E itemId \in MenuItemIds : \E updates \in ItemUpdates :
          /\ started < MaxWrites
          /\ UpdateMenuItemCall(c, itemId, updates)
    \/ \E c \in Clients : \E resp \in StoreOutcomes : UpdateMenuItemUpdate(c, resp)
    \/ \E c \in Clients : \E itemId \in MenuItemIds : \E isAvailable \in BOOLEAN :
          /\ started < MaxWrites
          /\ UpdateItemAvailabilityCall(c, itemId, isAvailable)
    \/ \E c \in Clients : \E resp \in StoreOutcomes :
          UpdateItemAvailabilityUpdate(c, resp)
    \/ \E c \in Clients : \E itemId \in MenuItemIds :
          /\ started < MaxWrites
          /\ DeleteMenuItemCall(c, itemId)
    \/ \E c \in Clients : \E resp \in StoreOutcomes : DeleteMenuItemDelete(c, resp)
    \/ \E c \in Clients : \E menuItemId \in MenuItemIds : \E variants \in VariantLists :
          /\ started < MaxWrites
          /\ nextVariantId + Len(variants) <= MaxVariantId + 1
          /\ SaveMenuItemVariantsCall(c, menuItemId, variants)
    \/ \E c \in Clients : SaveMenuItemVariantsGetUser(c)
    \/ \E c \in Clients : \E resp \in StoreOutcomes : SaveMenuItemVariantsDelete(c, resp)
    \/ \E c \in Clients : \E resp \in StoreOutcomes : SaveMenuItemVariantsInsert(c, resp)

SpecPrices == InitPrices /\ [][NextPrices]_vars

\* the categories of two restaurants, in an order of ids that is not the
\* display order; a third restaurant has none
InitCategories ==
    /\ categories = {[id |-> "cat1", restaurant_id |-> "r1", name |-> "mains",
                       display_order |-> 1],
                      [id |-> "cat7", restaurant_id |-> "r1", name |-> "drinks",
                       display_order |-> 0],
                      [id |-> "cat8", restaurant_id |-> "r2", name |-> "mains",
                       display_order |-> 0],
                      [id |-> "cat9", restaurant_id |-> "r2", name |-> "drinks",
                       display_order |-> 2]}
    /\ nextCategoryId = 2
    /\ menu_items = {}
    /\ nextItemId = 1
    /\ menu_item_variants = {}
    /\ nextVariantId = 1
    /\ menu_item_addons = {}
    /\ addon_groups = {}
    /\ addons = {}
    /\ nextAddonId = 1
    /\ nextGroupId = 1
    /\ orders = {}
    /\ order_items = {}
    /\ order_item_addons = {}
    /\ nextOrderId = 1
    /\ nextOrderItemId = 1
    /\ lastSave = NoSave
    /\ lastUpdate = NoUpdate
    /\ calls = [c \in Clients |-> Idle]
    /\ started = 0
    /\ everInterleaved = FALSE
    /\ auth_users = Owners
    /\ restaurants = OwnedRestaurants

CategoryIds == {"cat1", "cat2", "cat8"}

NextCategories ==
    \/ \E c \in Clients : \E service \in {"MenuService", "OrdersService"} :
          \E restaurantId \in {"r1", "r2", "r3"} :
          GetCategoriesCall(c, service, restaurantId)
    \/ \E c \in Clients : \E resp \in StoreOutcomes : GetCategoriesSelect(c, resp)
    \/ \E c \in Clients : \E categoryData \in CategoryDatas :
          /\ nextCategoryId <= MaxCategoryId
          /\ CreateCategoryCall(c, categoryData)
    \/ \E c \in Clients : \E resp \in StoreOutcomes : CreateCategoryInsert(c, resp)
    \/ \E c \in Clients : \E categoryId \in CategoryIds : \E updates \in CategoryUpdates :
          UpdateCategoryCall(c, categoryId, updates)
    \/ \E c \in Clients : \E resp \in StoreOutcomes : UpdateCategoryUpdate(c, resp)
    \/ \E c \in Clients : \E categoryId \in CategoryIds : DeleteCategoryCall(c, categoryId)
    \/ \E c \in Clients : \E resp \in StoreOutcomes : DeleteCategoryDelete(c, resp)

SpecCategories == InitCategories /\ [][NextCategories]_vars

\* orders created at different times; the store has no order yet
InitNumbers ==
    /\ orders = {}
    /\ order_items = {}
    /\ order_item_addons = {}
    /\ nextOrderId = 1
    /\ nextOrderItemId = 1
    /\ menu_item_variants = {}
    /\ nextVariantId = 1
    /\ categories = {}
    /\ nextCategoryId = 1
    /\ menu_items = {}
    /\ nextItemId = 1
    /\ menu_item_addons = {}
    /\ addon_groups = {}
    /\ addons = {}
    /\ nextAddonId = 1
    /\ nextGroupId = 1
    /\ lastSave = NoSave
    /\ lastUpdate = NoUpdate
    /\ calls = [c \in Clients |-> Idle]
    /\ started = 0
    /\ everInterleaved = FALSE
    /\ auth_users = Owners
    /\ restaurants = OwnedRestaurants

\* the orders have no items here: the order number does not depend on them
NextNumbers ==
    \/ \E c \in Clients : \E now \in {1700000005, 1700000006, 1700999999, 1701000000,
                                       1701000005} :
          \E orderData \in {d \in OrderDatas : d.order_items = <<>>} :
             /\ nextOrderId <= MaxOrderId
             /\ CreateOrderCall(c, orderData, now)
    \/ \E c \in Clients : \E resp \in StoreOutcomes : CreateOrderInsertOrder(c, resp)
    \/ \E c \in Clients : \E resp \in StoreOutcomes : CreateOrderInsertItems(c, resp)

SpecNumbers == InitNumbers /\ [][NextNumbers]_vars

\* ==================================================== AuthService.register
\* the messages of the errors a registration meets
UserAlreadyRegistered == "User already registered"
FetchFailed == "Failed to fetch"

\* part_000 261-283: the text shown for an error message (includes() on the
\* messages that occur here)
GetUserFriendlyError(message) ==
    IF message = UserAlreadyRegistered
    THEN "An account with this email already exists."
    ELSE IF message = FetchFailed
    THEN "Network error. Please check your internet connection."
    ELSE "An error occurred. Please try again."

Registrations ==
    [restaurantName : {"cafe"}, ownerName : {"cat"},
     email : {"ann@r1", "cat@r3", "dan@r4"}, password : {"pw"}]

\* the ids the identity provider and the store hand out, in this order
UserIds == <<"u1", "u2", "u3", "u4", "u5", "u6">>
RestaurantIds == <<"r1", "r2", "r3", "r4", "r5", "r6">>

NoUser == [id |-> "none", email |-> "none"]
NoRestaurant == [id |-> "none", user_id |-> "none", name |-> "none",
                 owner_name |-> "none", email |-> "none"]
\* the catch block of register: the promise resolves with success false; the
\* error of the result is error.message in js/auth.js and the friendly text
\* in part_000
Failed(call, message) ==
    Resolve([call EXCEPT !.err = message,
                         !.result = [success |-> FALSE, user |-> NoUser,
                                     restaurant |-> NoRestaurant,
                                     error |-> IF call.build = "js/auth.js"
                                               THEN message
                                               ELSE GetUserFriendlyError(message)]])

\* register({restaurantName, ownerName, email, password}), in the source
\* js/auth.js or in the later unnamed/part_000; part_000 clears
\* the stored session of the browser first, which no store call reads
RegisterCall(c, registration, build) ==
    /\ CanStart(c)
    /\ calls' = Overlap(c, [op |-> "register", pc |-> "signUp",
                            registration |-> registration, build |-> build,
                            signedUp |-> FALSE, user |-> NoUser,
                            result |-> [success |-> FALSE, user |-> NoUser,
                                        restaurant |-> NoRestaurant,
                                        error |-> "pending"],
                            log |-> <<>>,
                            outcome |-> "pending", err |-> NoError,
                            alone |-> ~OthersRunning(c), pre |-> Store])
    /\ started' = started + 1
    /\ everInterleaved' = (everInterleaved \/ OthersRunning(c))
    /\ UNCHANGED <<orderVars, menuVars, catalogVars, authVars>>

\* supabase.auth.signUp answers with a user, with an error for an address that
\* is registered already, or the request fails: authError is thrown into the
\* catch block, and so is the Error built when the answer carries no user
RegisterSignUp(c, resp, withUser) ==
    /\ calls[c].op = "register" /\ calls[c].pc = "signUp"
    /\ resp \in IF Eq(auth_users, "email", calls[c].registration.email) # {}
                THEN {UserAlreadyRegistered, FetchFailed}
                ELSE {NoError, FetchFailed}
    /\ LET call == calls[c]
           log == Logged(call, "signUp", "auth", resp)
           user == [id |-> UserIds[Cardinality(auth_users) + 1],
                    email |-> call.registration.email]
       IN IF resp # NoError
          THEN /\ calls' = Overlap(c, Failed([call EXCEPT !.log = log], resp))
               /\ UNCHANGED auth_users
          ELSE IF ~withUser
          THEN /\ calls' = Overlap(c, Failed([call EXCEPT !.log = log],
                                             "User creation failed"))
               /\ UNCHANGED auth_users
          ELSE /\ auth_users' = auth_users \cup {user}
               /\ calls' = Overlap(c, [call EXCEPT !.log = log, !.signedUp = TRUE,
                                                   !.user = user,
                                                   !.pc = "insertRestaurant"])
    /\ UNCHANGED <<orderVars, menuVars, catalogVars, restaurants, callVars>>

\* a variant that removes the user again when the restaurant is not created
RegisterInsertRestaurantCompensating(c, resp) ==
    /\ calls[c].op = "register" /\ calls[c].pc = "insertRestaurant"
    /\ LET call == calls[c]
           log == Logged(call, "insert", "restaurants", resp)
           row == [id |-> RestaurantIds[Cardinality(restaurants) + 1],
                   user_id |-> call.user.id,
                   name |-> call.registration.restaurantName,
                   owner_name |-> call.registration.ownerName,
                   email |-> call.registration.email]
       IN IF resp # NoError
          THEN /\ calls' = Overlap(c, Failed([call EXCEPT !.log = log], resp))
               /\ auth_users' = auth_users \ {call.user}
               /\ UNCHANGED restaurants
          ELSE /\ restaurants' = restaurants \cup {row}
               /\ calls' = Overlap(c, Resolve([call EXCEPT
                                !.log = log,
                                !.result = [success |-> TRUE, user |-> call.user,
                                            restaurant |-> row, error |-> NoError]]))
               /\ UNCHANGED auth_users
    /\ UNCHANGED <<orderVars, menuVars, catalogVars, callVars>>

\* the insert into restaurants, .select().single(): restaurantError is thrown
\* into the catch block; nothing undoes the sign-up
RegisterInsertRestaurant(c, resp) ==
    /\ calls[c].op = "register" /\ calls[c].pc = "insertRestaurant"
    /\ LET call == calls[c]
           log == Logged(call, "insert", "restaurants", resp)
           row == [id |-> RestaurantIds[Cardinality(restaurants) + 1],
                   user_id |-> call.user.id,
                   name |-> call.registration.restaurantName,
                   owner_name |-> call.registration.ownerName,
                   email |-> call.registration.email]
       IN IF resp # NoError
          THEN /\ calls' = Overlap(c, Failed([call EXCEPT !.log = log], resp))
               /\ UNCHANGED restaurants
          ELSE /\ restaurants' = restaurants \cup {row}
               /\ calls' = Overlap(c, Resolve([call EXCEPT
                                !.log = log,
                                !.result = [success |-> TRUE, user |-> call.user,
                                            restaurant |-> row, error |-> NoError]]))
    /\ UNCHANGED <<orderVars, menuVars, catalogVars, auth_users, callVars>>

NextAuth ==
    \/ \E c \in Clients : \E registration \in Registrations :
          \E build \in {"js/auth.js", "unnamed/part_000"} :
          RegisterCall(c, registration, build)
    \/ \E c \in Clients : \E resp \in {NoError, UserAlreadyRegistered, FetchFailed} :
          \E withUser \in BOOLEAN : RegisterSignUp(c, resp, withUser)
    \/ \E c \in Clients : \E resp \in StoreOutcomes : RegisterInsertRestaurant(c, resp)

\* the registrations start from the store of two owners with empty menus
SpecAuth == InitNumbers /\ [][NextAuth]_vars

\* ================================================== properties: deleteOrder
DeleteCalls == {c \in Clients : calls[c].op = "deleteOrder"}
CreateCalls == {c \in Clients : calls[c].op = "createOrder"}

StoreCall(verb, table) == [verb |-> verb, table |-> table]
CallOf(entry) == [verb |-> entry.verb, table |-> entry.table]

\* the five store calls of a deletion of an order with items
DeleteOrderPhases ==
    << StoreCall("select", "orders"), StoreCall("select", "order_items"),
       StoreCall("delete", "order_item_addons"), StoreCall("delete", "order_items"),
       StoreCall("delete", "orders") >>

IsPrefixOf(log, phases) ==
    /\ Len(log) <= Len(phases)
    /\ \A i \in 1..Len(log) : CallOf(log[i]) = phases[i]

\* every store call but the last one of a trace returned without an error
EarlierCallsSucceeded(log) == \A i \in 1..(Len(log) - 1) : log[i].resp = NoError

Ids(rows) == {r.id : r \in rows}

\* C1: a deleteOrder on an order with items issues its store calls in the order
\* fetch order, fetch item ids, delete add-ons, delete items, delete order, each
\* one only after the previous one returned without error; a successful call
\* has issued all five.
C1_DeleteOrderPhaseOrder ==
    \A c \in DeleteCalls :
        calls[c].orderItemIds # {} =>
            /\ IsPrefixOf(calls[c].log, DeleteOrderPhases)
            /\ EarlierCallsSucceeded(calls[c].log)
            /\ (calls[c].outcome = "resolved" => Len(calls[c].log) = 5)
            /\ (calls[c].pc = "deleteAddons" => Len(calls[c].log) = 2)
            /\ (calls[c].pc = "deleteItems" => Len(calls[c].log) = 3)
            /\ (calls[c].pc = "deleteOrderRow" => Len(calls[c].log) = 4)

C1_Witness ==
    \E c \in DeleteCalls :
        /\ calls[c].orderItemIds # {}
        /\ calls[c].outcome = "resolved"
        /\ Len(calls[c].log) = 5

\* the store a successful deleteOrder(o) must leave, given the store it found
StoreWithoutOrder(pre, o) ==
    LET items == Eq(pre.order_items, "order_id", o)
    IN [pre EXCEPT !.orders = pre.orders \ Eq(pre.orders, "id", o),
                   !.order_items = pre.order_items \ items,
                   !.order_item_addons = pre.order_item_addons \
                        In(pre.order_item_addons, "order_item_id", Ids(items))]

\* C2: right after a deleteOrder(o) that succeeded without a concurrent
\* operation, exactly the orders row o, its order_items rows and their
\* order_item_addons rows are gone; every other row is as it was.
C2_DeleteOrderRemovesExactlyItsRows ==
    \A c \in DeleteCalls :
        (calls[c].outcome = "resolved" /\ calls[c].alone) =>
            Store = StoreWithoutOrder(calls[c].pre, calls[c].orderId)

C2_Witness ==
    \E c \in DeleteCalls :
        /\ calls[c].outcome = "resolved" /\ calls[c].alone
        /\ calls[c].pre.order_item_addons # order_item_addons
        /\ Cardinality(calls[c].pre.order_items \ order_items) = 2
        /\ order_items # {}
        /\ orders # {}

\* every order_items row has its orders row, every order_item_addons row its
\* order_items row
ReferentialIntegrity ==
    /\ \A item \in order_items : \E o \in orders : o.id = item.order_id
    /\ \A addon \in order_item_addons :
            \E item \in order_items : item.id = addon.order_item_id

\* C3: as long as no two calls have overlapped, whatever createOrder and
\* deleteOrder calls ran, aborted ones included, no order_items row and no
\* order_item_addons row is an orphan.
C3_NoOrphansWithoutInterleaving == ~everInterleaved => ReferentialIntegrity

C3_Witness ==
    /\ ~everInterleaved
    /\ \E c \in DeleteCalls :
            /\ calls[c].outcome = "rejected"
            /\ Len(calls[c].log) = 4
            /\ calls[c].pre.order_item_addons # order_item_addons
    /\ started = MaxCalls

\* the errors that say that the row asked for does not exist
NotFoundErrors == {NotFound, OrderNotFound}

\* C4: a deleteOrder on an id without an orders row (no concurrent operation)
\* never resolves and issues no delete, the store stays as it was, and once the
\* store has answered the fetch the call is rejected with a not-found error.
C4_DeleteMissingOrderIsNotFound ==
    \A c \in DeleteCalls :
        (calls[c].alone /\ Eq(calls[c].pre.orders, "id", calls[c].orderId) = {}) =>
            /\ calls[c].outcome # "resolved"
            /\ \A i \in 1..Len(calls[c].log) : calls[c].log[i].verb # "delete"
            /\ Store = calls[c].pre
            /\ (Len(calls[c].log) >= 1 =>
                    /\ IsDone(c) /\ calls[c].outcome = "rejected"
                    /\ (calls[c].log[1].resp # StoreUnavailable =>
                            calls[c].err \in NotFoundErrors))

\* the id was handed out by the store and its row has been deleted since
C4_Witness ==
    \E c \in DeleteCalls :
        /\ calls[c].alone /\ Eq(calls[c].pre.orders, "id", calls[c].orderId) = {}
        /\ calls[c].orderId < nextOrderId
        /\ calls[c].outcome = "rejected" /\ calls[c].err \in NotFoundErrors

Succeeded(log, call) ==
    \E i \in 1..Len(log) : CallOf(log[i]) = call /\ log[i].resp = NoError

\* the store an aborted deleteOrder leaves: the rows of the phases that
\* succeeded are gone, all others are there
StoreAfterPhases(pre, o, log) ==
    LET items == Eq(pre.order_items, "order_id", o)
    IN [pre EXCEPT
          !.order_item_addons =
              IF Succeeded(log, StoreCall("delete", "order_item_addons"))
              THEN pre.order_item_addons \
                        In(pre.order_item_addons, "order_item_id", Ids(items))
              ELSE pre.order_item_addons,
          !.order_items =
              IF Succeeded(log, StoreCall("delete", "order_items"))
              THEN pre.order_items \ items ELSE pre.order_items,
          !.orders =
              IF Succeeded(log, StoreCall("delete", "orders"))
              THEN pre.orders \ Eq(pre.orders, "id", o) ELSE pre.orders]

\* C5: when a store call of deleteOrder returns an error the call is rejected
\* with it, that store call is the last one issued, and (no concurrent
\* operation) the rows removed by the earlier phases stay removed.
C5_DeleteOrderAbortsWithoutRollback ==
    \A c \in DeleteCalls :
        /\ \A i \in 1..Len(calls[c].log) :
                calls[c].log[i].resp # NoError =>
                    /\ i = Len(calls[c].log)
                    /\ IsDone(c) /\ calls[c].outcome = "rejected"
                    /\ calls[c].err = calls[c].log[i].resp
        /\ (calls[c].outcome = "rejected" /\ calls[c].alone) =>
                Store = StoreAfterPhases(calls[c].pre, calls[c].orderId, calls[c].log)

C5_Witness ==
    \E c \in DeleteCalls :
        /\ calls[c].outcome = "rejected" /\ calls[c].alone
        /\ Len(calls[c].log) = 5
        /\ calls[c].pre.order_items # order_items
        /\ calls[c].pre.order_item_addons # order_item_addons
        /\ calls[c].pre.orders = orders

\* the store call at which a rejected call stopped
FailedPhase(c) == CallOf(calls[c].log[Len(calls[c].log)])

\* C6: the error a rejected deleteOrder surfaces tells which phase failed: two
\* rejected calls that surface the same error failed in the same phase.
C6_DeleteOrderErrorNamesPhase ==
    \A c, d \in DeleteCalls :
        (/\ calls[c].outcome = "rejected" /\ calls[d].outcome = "rejected"
         /\ calls[c].err = calls[d].err)
            => FailedPhase(c) = FailedPhase(d)

\* ================================================== properties: createOrder
CreateOrderPhases ==
    << StoreCall("insert", "orders"), StoreCall("insert", "order_items") >>

\* C7: createOrder inserts the orders row first and the order_items rows only
\* after that insert succeeded; the rows it inserts carry the id of the order
\* row the store returned, and after a failed order insert none is written.
C7_CreateOrderInsertsOrderFirst ==
    \A c \in CreateCalls :
        /\ IsPrefixOf(calls[c].log, CreateOrderPhases)
        /\ EarlierCallsSucceeded(calls[c].log)
        /\ (calls[c].pc = "insertItems" => Len(calls[c].log) = 1)
        /\ calls[c].alone =>
            /\ \A item \in order_items \ calls[c].pre.order_items :
                    /\ item.order_id = calls[c].orderId
                    /\ Ids(orders \ calls[c].pre.orders) = {calls[c].orderId}
                    /\ Succeeded(calls[c].log, StoreCall("insert", "orders"))
            /\ (calls[c].outcome = "resolved" =>
                    Cardinality(order_items \ calls[c].pre.order_items)
                        = Len(calls[c].orderData.order_items))
            /\ (~Succeeded(calls[c].log, StoreCall("insert", "orders")) =>
                    order_items = calls[c].pre.order_items)

C7_Witness ==
    \E c \in CreateCalls :
        /\ calls[c].alone /\ calls[c].outcome = "resolved"
        /\ Cardinality(order_items \ calls[c].pre.order_items) = 2
        /\ calls[c].pre.order_items # {}

ItemsInsertFailed(c) ==
    /\ calls[c].op = "createOrder"
    /\ Len(calls[c].log) = 2
    /\ calls[c].log[2].resp # NoError

\* C8: when the order_items insert of createOrder fails after the orders row
\* was inserted, the call is rejected, it issues no delete, and (no concurrent
\* operation) the orders row is still in the store.
C8_FailedItemsInsertKeepsOrder ==
    \A c \in Clients :
        ItemsInsertFailed(c) =>
            /\ calls[c].outcome = "rejected"
            /\ \A i \in 1..Len(calls[c].log) : calls[c].log[i].verb # "delete"
            /\ calls[c].alone =>
                /\ Ids(orders \ calls[c].pre.orders) = {calls[c].orderId}
                /\ calls[c].pre.orders \subseteq orders
                /\ order_items = calls[c].pre.order_items
                /\ order_item_addons = calls[c].pre.order_item_addons

C8_Witness ==
    \E c \in Clients :
        /\ ItemsInsertFailed(c) /\ calls[c].alone
        /\ calls[c].outcome = "rejected"
        /\ \E o \in orders : o.id = calls[c].orderId

\* C9: the error of a createOrder whose items insert failed is a distinct
\* partial-creation error: no createOrder whose order insert failed surfaces
\* the same error.
C9_PartialCreationErrorIsDistinct ==
    \A c, d \in CreateCalls :
        (/\ ItemsInsertFailed(c)
         /\ calls[d].outcome = "rejected" /\ Len(calls[d].log) = 1)
            => calls[c].err # calls[d].err

\* ======================================= properties: saveMenuItemVariants
GetVariantsCalls == {c \in Clients : calls[c].op = "getMenuItemVariants"}

\* the read came right after a save of the same item that succeeded and that
\* no other call had overlapped
ReadAfterSave(c) ==
    /\ calls[c].outcome = "resolved"
    /\ calls[c].seen # NoSave
    /\ calls[c].seen.item = calls[c].menuItemId
    /\ calls[c].seen.alone

\* C10: a getMenuItemVariants(item) that follows a successful, not overlapped
\* saveMenuItemVariants(item, list) without a write in between returns exactly
\* the variants of the list, in list order, the i-th with display_order i
\* counted from 0, whatever variants the item had before.
C10_SavedVariantsReadBackInListOrder ==
    \A c \in GetVariantsCalls :
        ReadAfterSave(c) =>
            /\ Len(calls[c].variants) = Len(calls[c].seen.variants)
            /\ \A i \in 1..Len(calls[c].variants) :
                    /\ calls[c].variants[i].name = calls[c].seen.variants[i].name
                    /\ calls[c].variants[i].display_order = i - 1
                    /\ calls[c].variants[i].menu_item_id = calls[c].menuItemId

C10_Witness ==
    \E c \in GetVariantsCalls :
        /\ ReadAfterSave(c)
        /\ calls[c].seen.replaced = 2
        /\ Len(calls[c].variants) = 2
        /\ calls[c].variants[1].name # calls[c].variants[2].name

\* the rows are exactly the variants of the list, the i-th with display_order i - 1
MatchesList(rows, list) ==
    /\ Cardinality(rows) = Len(list)
    /\ \A i \in 1..Len(list) :
            \E r \in rows : r.name = list[i].name /\ r.display_order = i - 1

SaveCalls == {c \in Clients : calls[c].op = "saveMenuItemVariants"}

\* two saves of different lists for one item that ran concurrently and both resolved
ConcurrentSavesResolved(c, d) ==
    /\ c # d /\ c \in SaveCalls /\ d \in SaveCalls
    /\ calls[c].outcome = "resolved" /\ calls[d].outcome = "resolved"
    /\ calls[c].menuItemId = calls[d].menuItemId
    /\ calls[c].variants # calls[d].variants

\* C11 as stated: once two concurrent saveMenuItemVariants calls on one item
\* with different lists have both completed, the item's variants equal exactly
\* one of the two lists, never a merge of both.
C11_ConcurrentSavesNeverMerge ==
    \A c, d \in Clients :
        ConcurrentSavesResolved(c, d) =>
            LET rows == Eq(menu_item_variants, "menu_item_id", calls[c].menuItemId)
            IN MatchesList(rows, calls[c].variants) \/ MatchesList(rows, calls[d].variants)


GetGroupsCalls == {c \in Clients : calls[c].op = "getVariantAddonGroups"}

\* the read of client c came after a successful updateVariantAddonGroups of
\* the same variant, which existed, with no write to it in between
ReadAfterUpdate(c) ==
    /\ c \in GetGroupsCalls /\ IsDone(c)
    /\ calls[c].seen.variant = calls[c].variantId
    /\ calls[c].seen.matched

Elements(seq) == {seq[i] : i \in 1..Len(seq)}

\* C12: for every existing variant v and list G, a getVariantAddonGroups(v)
\* that follows a successful updateVariantAddonGroups(v, G) with no write in
\* between resolves, unless the store fails, with entries whose
\* addon_group_id values are as a set the ids of G.
C12_UpdatedGroupsReadBack ==
    \A c \in Clients :
        ReadAfterUpdate(c) =>
            IF calls[c].outcome = "resolved"
            THEN {g.addon_group_id : g \in Elements(calls[c].groups)}
                    = Elements(calls[c].seen.groups)
            ELSE calls[c].err = StoreUnavailable

C12_Witness ==
    \E c \in Clients :
        /\ ReadAfterUpdate(c)
        /\ calls[c].outcome = "resolved"
        /\ calls[c].variantId = 1
        /\ calls[c].seen.groups = <<"g2">>

\* client c's updateVariantAddonGroups makes its store call in this step
VariantUpdateStep(c) ==
    /\ calls[c].op = "updateVariantAddonGroups"
    /\ calls[c].pc = "updateVariant" /\ calls'[c].pc = "done"

\* client c's updateMenuItemAddonGroups makes a store call in this step
LinkUpdateStep(c) ==
    /\ calls[c].op = "updateMenuItemAddonGroups"
    /\ calls[c].pc \in {"deleteLinks", "insertLinks"}
    /\ calls'[c].pc # calls[c].pc

WithoutGroups(rows) == {[r EXCEPT !.addon_groups = <<>>] : r \in rows}

\* C13: a store call of updateVariantAddonGroups(v, G) changes nothing but
\* the addon_groups array of the variant row v, and no row of the link table
\* menu_item_addons; a store call of updateMenuItemAddonGroups(item, G)
\* changes nothing but the menu_item_addons rows of that item, and no variant
\* row.
C13_AssociationWritesStayInTheirForm ==
    [][\A c \in Clients :
          /\ VariantUpdateStep(c) =>
                /\ [Store EXCEPT !.menu_item_variants = {}]
                      = [Store' EXCEPT !.menu_item_variants = {}]
                /\ {r \in menu_item_variants : r.id # calls[c].variantId}
                      = {r \in menu_item_variants' : r.id # calls[c].variantId}
                /\ WithoutGroups(menu_item_variants) = WithoutGroups(menu_item_variants')
          /\ LinkUpdateStep(c) =>
                /\ [Store EXCEPT !.menu_item_addons = {}]
                      = [Store' EXCEPT !.menu_item_addons = {}]
                /\ {r \in menu_item_addons : r.menu_item_id # calls[c].menuItemId}
                      = {r \in menu_item_addons' : r.menu_item_id # calls[c].menuItemId}
      ]_vars

\* both updates have run: the variant's array differs from the one it had, the
\* item's links were replaced, and the other item has links
C13_Witness ==
    \E c, d \in Clients :
        /\ calls[c].op = "updateVariantAddonGroups" /\ calls[c].outcome = "resolved"
        /\ \E r \in menu_item_variants :
              /\ r.id = calls[c].variantId
              /\ r \notin calls[c].pre.menu_item_variants
        /\ calls[d].op = "updateMenuItemAddonGroups" /\ calls[d].outcome = "resolved"
        /\ Len(calls[d].addonGroupIds) > 0
        /\ Eq(calls[d].pre.menu_item_addons, "menu_item_id", calls[d].menuItemId)
              # Eq(menu_item_addons, "menu_item_id", calls[d].menuItemId)
        /\ \E r \in menu_item_addons : r.menu_item_id # calls[d].menuItemId

GetItemsCalls == {c \in Clients : calls[c].op = "getMenuItems"}

\* the variants a getMenuItems result holds
ResultVariants(call) ==
    UNION {Elements(call.menuItems[i].variants) : i \in 1..Len(call.menuItems)}

\* the result lists every item of the category with every variant it has
AllItemsAndVariants(call) ==
    /\ {call.menuItems[i].id : i \in 1..Len(call.menuItems)}
          = {r.id : r \in Eq(call.pre.menu_items, "category_id", call.categoryId)}
    /\ \A i \in 1..Len(call.menuItems) :
          {v.id : v \in Elements(call.menuItems[i].variants)}
             = {r.id : r \in Eq(call.pre.menu_item_variants, "menu_item_id",
                                call.menuItems[i].id)}

\* the groups the store holds for the variant
RealGroups(store, variantId) ==
    (CHOOSE r \in store.menu_item_variants : r.id = variantId).addon_groups

\* a getMenuItems that no other call overlapped has returned: it is rejected
\* only by a failed select of the items or of an item's variants, and in
\* its result the variants in failed have the empty list and all others the
\* groups the store holds
HydratedExcept(c, failed) ==
    LET call == calls[c]
    IN (c \in GetItemsCalls /\ IsDone(c) /\ call.alone) =>
          IF call.outcome = "rejected"
          THEN call.variant = 0
          ELSE /\ AllItemsAndVariants(call)
               /\ \A v \in ResultVariants(call) :
                     v.addon_groups = IF v.id \in failed THEN <<>>
                                      ELSE RealGroups(call.pre, v.id)

\* C14 as stated: in getMenuItems, when a group resolution call fails for a
\* variant, that variant's addon_groups is the empty list, the error is not
\* propagated, and every other variant is hydrated with its real groups.
C14_FailedResolutionLeavesEmptyList ==
    \A c \in Clients :
        HydratedExcept(c, calls[c].innerFailed \cup calls[c].outerFailed)

\* C14 amended: in getMenuItems the groups of every variant are resolved
\* twice, inside getMenuItemVariants and then by getMenuItems itself; when the
\* second resolution call fails for a variant, that variant's addon_groups is
\* the empty list, the error is not propagated, getMenuItems still resolves,
\* and every other variant, also one whose first resolution call failed, is
\* hydrated with its real groups.
C14_FailedLastResolutionLeavesEmptyList ==
    \A c \in Clients : HydratedExcept(c, calls[c].outerFailed)

\* one variant's first resolution failed and it has its groups; the other's
\* second resolution failed
C14_Witness ==
    \E c \in GetItemsCalls :
        /\ IsDone(c) /\ calls[c].alone /\ calls[c].outcome = "resolved"
        /\ calls[c].innerFailed = {1} /\ calls[c].outerFailed = {3}
        /\ \E v \in ResultVariants(calls[c]) : v.id = 1 /\ v.addon_groups # <<>>
        /\ \E v \in ResultVariants(calls[c]) : v.id = 3 /\ v.addon_groups = <<>>


\* client c's updateOrderStatus makes its store call in this step
StatusUpdateStep(c) ==
    /\ calls[c].op = "updateOrderStatus"
    /\ calls[c].pc = "updateOrder" /\ calls'[c].pc = "done"

StoreAnswered(call) == \A i \in 1..Len(call.log) : call.log[i].resp # StoreUnavailable

\* C16: for every existing order, in whatever status, and every new status,
\* the store call of updateOrderStatus that the store answers sets the order's
\* status to the new one and the call resolves with the updated row; no
\* other field of the row, no other order and no other table changes.
C16_UpdateOrderStatusSetsAnyStatus ==
    [][\A c \in Clients :
          (/\ StatusUpdateStep(c)
           /\ Eq(orders, "id", calls[c].orderId) # {}
           /\ StoreAnswered(calls'[c])) =>
              LET row == CHOOSE r \in orders : r.id = calls[c].orderId
                  new == [row EXCEPT !.status = calls[c].status]
              IN /\ calls'[c].outcome = "resolved"
                 /\ calls'[c].data = new
                 /\ orders' = (orders \ {row}) \cup {new}
                 /\ [Store EXCEPT !.orders = {}] = [Store' EXCEPT !.orders = {}]
      ]_vars

\* a completed order was set back to pending
C16_Witness ==
    \E c \in Clients :
        /\ calls[c].op = "updateOrderStatus" /\ calls[c].outcome = "resolved"
        /\ calls[c].status = "pending" /\ calls[c].data.status = "pending"
        /\ \E r \in calls[c].pre.orders :
              r.id = calls[c].orderId /\ r.status = "completed"
        /\ calls[c].data \in orders
        /\ Cardinality(orders) > 1

\* C17: the store call of updateOrderStatus on an id that no orders row has
\* rejects the call, with the not-found error of .single() when the store
\* answered, and leaves the store as it was.
C17_UpdateMissingOrderIsNotFound ==
    [][\A c \in Clients :
          (StatusUpdateStep(c) /\ Eq(orders, "id", calls[c].orderId) = {}) =>
              /\ calls'[c].outcome = "rejected"
              /\ StoreAnswered(calls'[c]) => calls'[c].err = NotFound
              /\ Store' = Store
      ]_vars

C17_Witness ==
    \E c \in Clients :
        /\ calls[c].op = "updateOrderStatus" /\ calls[c].outcome = "rejected"
        /\ calls[c].err = NotFound
        /\ Eq(calls[c].pre.orders, "id", calls[c].orderId) = {}
        /\ calls[c].alone /\ Store = calls[c].pre /\ orders # {}

\* C18 as stated: every order row createOrder creates has the initial status
\* pending, whatever status the caller passes.
C18_CreatedOrderIsPending ==
    [][\A c \in Clients :
          (calls[c].op = "createOrder" /\ calls[c].pc = "insertOrder") =>
              \A r \in orders' \ orders : r.status = "pending"
      ]_vars

\* C19 as stated: a createOrder that resolved, not overlapped by another
\* call, leaves at least one order_items row owned by its order.
C19_CreatedOrderOwnsItems ==
    \A c \in Clients :
        (/\ calls[c].op = "createOrder" /\ calls[c].outcome = "resolved"
         /\ calls[c].alone) =>
            Eq(order_items, "order_id", calls[c].orderId) # {}


DeleteGroupCalls == {c \in Clients : calls[c].op = "deleteAddonGroup"}

DeleteAddonGroupPhases ==
    <<[verb |-> "delete", table |-> "addons"],
      [verb |-> "delete", table |-> "addon_groups"]>>

\* C15: deleteAddonGroup(g) issues the delete of the addons with
\* addon_group_id = g before the delete of the addon_groups row g, and the
\* second only when the first succeeded: when the delete of the addons fails
\* the call rejects without a delete on addon_groups and the group row stays;
\* once the call has resolved, with no other call in between, neither the
\* group row nor an addon of the group exists, and the other rows are as
\* they were.
C15_DeleteAddonGroupAddonsFirst ==
    \A c \in DeleteGroupCalls :
        LET call == calls[c]
            g == call.groupId
        IN /\ Len(call.log) <= 2
           /\ \A i \in 1..Len(call.log) :
                 /\ call.log[i].verb = DeleteAddonGroupPhases[i].verb
                 /\ call.log[i].table = DeleteAddonGroupPhases[i].table
                 /\ i < Len(call.log) => call.log[i].resp = NoError
           /\ (Len(call.log) >= 1 /\ call.log[1].resp # NoError) =>
                 /\ Len(call.log) = 1 /\ call.outcome = "rejected"
                 /\ call.alone => Store = call.pre
           /\ call.outcome = "resolved" =>
                 /\ Len(call.log) = 2 /\ call.log[2].resp = NoError
                 /\ call.alone =>
                       /\ Eq(addon_groups, "id", g) = {}
                       /\ Eq(addons, "addon_group_id", g) = {}
                       /\ addon_groups = call.pre.addon_groups
                                            \ Eq(call.pre.addon_groups, "id", g)
                       /\ addons = call.pre.addons
                                      \ Eq(call.pre.addons, "addon_group_id", g)

\* a group with addons was deleted, and another group with an addon is left
C15_Witness ==
    \E c \in DeleteGroupCalls :
        /\ calls[c].outcome = "resolved" /\ calls[c].alone
        /\ Eq(calls[c].pre.addon_groups, "id", calls[c].groupId) # {}
        /\ Cardinality(Eq(calls[c].pre.addons, "addon_group_id", calls[c].groupId)) = 2
        /\ addons # {} /\ addon_groups # {}


WriteVerbs == {"insert", "update", "delete"}

\* the store calls of the call that wrote or deleted and answered an error
FailedWrites(call) ==
    {i \in 1..Len(call.log) :
        call.log[i].verb \in WriteVerbs /\ call.log[i].resp # NoError}

\* C20: in every write or delete operation of MenuService, OrdersService and
\* AddonService, a store write or delete call that answers an error is the
\* last store call of the operation, and the operation rejects with that
\* error; it never resolves.
C20_FailedWriteRejects ==
    \A c \in Clients :
        IsActive(c) =>
            \A i \in FailedWrites(calls[c]) :
                /\ i = Len(calls[c].log)
                /\ calls[c].pc = "done"
                /\ calls[c].outcome = "rejected"
                /\ calls[c].err = calls[c].log[i].resp

\* the insert of updateMenuItemAddonGroups failed after its delete succeeded
C20_Witness ==
    \E c \in Clients :
        /\ calls[c].op = "updateMenuItemAddonGroups"
        /\ FailedWrites(calls[c]) = {2}
        /\ calls[c].outcome = "rejected"
        /\ menu_item_addons # calls[c].pre.menu_item_addons


CatalogOps == {"updateMenuItem", "updateItemAvailability", "deleteMenuItem",
               "saveMenuItemVariants"}

\* client c's call makes a store call in this step
StoreStep(c) == Running(c) /\ Len(calls'[c].log) > Len(calls[c].log)

\* C21: the order_items rows createOrder inserts carry, item by item, the
\* item_price of the order specification; a store call of updateMenuItem,
\* updateItemAvailability, deleteMenuItem or saveMenuItemVariants changes no
\* order_items row, and no order_items row is changed or removed afterwards.
C21_ItemPriceIsCapturedAtOrderTime ==
    [][/\ order_items \subseteq order_items'
       /\ \A c \in Clients :
             /\ (StoreStep(c) /\ calls[c].op \in CatalogOps) =>
                   order_items' = order_items
             /\ (StoreStep(c) /\ calls[c].op = "createOrder"
                    /\ order_items' # order_items) =>
                   LET items == calls[c].orderData.order_items
                       new == order_items' \ order_items
                   IN /\ Cardinality(new) = Len(items)
                      /\ \A i \in 1..Len(items) :
                            \E r \in new :
                               /\ r.id = nextOrderItemId + i - 1
                               /\ r.order_id = calls[c].orderId
                               /\ r.menu_item_id = items[i].menu_item_id
                               /\ r.item_price = items[i].item_price
      ]_vars

\* an order was created at the caller's price and the catalog price of the
\* item was changed; the item's order rows carry the caller's price
C21_Witness ==
    \E c, d \in Clients :
        /\ calls[c].op = "createOrder" /\ calls[c].outcome = "resolved"
        /\ Eq(order_items, "order_id", calls[c].orderId) # {}
        /\ calls[d].op = "updateMenuItem" /\ calls[d].outcome = "resolved"
        /\ \E m \in menu_items : m.id = "m1" /\ m.price = 9
        /\ \A r \in order_items : r.menu_item_id = "m1" /\ r.item_price = 5
        /\ calls[d].pre.order_items \subseteq order_items


GetCategoriesCalls ==
    {c \in Clients : calls[c].op = "getCategories" /\ calls[c].outcome = "resolved"}

\* C22: a getCategories(r) that resolves returns exactly the categories whose
\* restaurant_id is r in the table it read, each once, in a sequence that is
\* non-decreasing in display_order; it is the empty sequence when r has none.
C22_GetCategoriesFiltersAndSorts ==
    \A c \in GetCategoriesCalls :
        LET data == calls[c].data
            own == {r \in calls[c].seen : r.restaurant_id = calls[c].restaurantId}
        IN /\ {data[i] : i \in 1..Len(data)} = own
           /\ Len(data) = Cardinality(own)
           /\ \A i \in 1..Len(data) : data[i].restaurant_id = calls[c].restaurantId
           /\ \A i, j \in 1..Len(data) :
                 i < j => data[i].display_order <= data[j].display_order
           /\ (own = {}) => data = <<>>

\* a read that returned two categories of r1 in display order against the
\* order of their ids while another restaurant has categories, and a read of
\* a restaurant without categories that returned the empty sequence
C22_Witness ==
    \E c, d \in GetCategoriesCalls :
        /\ calls[c].restaurantId = "r1" /\ Len(calls[c].data) = 2
        /\ calls[c].data[1].id = "cat7" /\ calls[c].data[2].id = "cat1"
        /\ \E r \in calls[c].seen : r.restaurant_id = "r2"
        /\ calls[d].restaurantId = "r3" /\ calls[d].data = <<>>


LinkCalls ==
    {c \in Clients : calls[c].op = "updateMenuItemAddonGroups" /\ IsDone(c)
                     /\ calls[c].alone}

LinkedGroups(links, menuItemId) ==
    {r.addon_group_id : r \in {l \in links : l.menu_item_id = menuItemId}}

LinksOfOthers(links, menuItemId) == {l \in links : l.menu_item_id # menuItemId}

\* C24: when updateMenuItemAddonGroups(item, G), not overlapped by another
\* call, has resolved, the group ids linked to item are exactly the ids of G
\* (none when G is empty); when its insert failed after its delete succeeded,
\* the call has rejected and item has no links; in both cases, and when the
\* delete failed, the links of other items are the ones the call started on.
C24_LinksReplacedOrCleared ==
    \A c \in LinkCalls :
        LET call == calls[c]
            item == call.menuItemId
        IN /\ LinksOfOthers(menu_item_addons, item) =
                 LinksOfOthers(call.pre.menu_item_addons, item)
           /\ call.outcome = "resolved" =>
                 /\ LinkedGroups(menu_item_addons, item) = Elements(call.addonGroupIds)
                 /\ (call.addonGroupIds = <<>>) =>
                       LinkedGroups(menu_item_addons, item) = {}
           /\ (Len(call.log) = 2 /\ call.log[1].resp = NoError
                  /\ call.log[2].resp # NoError) =>
                 /\ call.outcome = "rejected"
                 /\ call.err = call.log[2].resp
                 /\ LinkedGroups(menu_item_addons, item) = {}

\* an item linked to g1 was given g2 and is linked to g2 only while the links
\* of the other item are still there
C24_Witness ==
    \E c \in LinkCalls :
        /\ calls[c].outcome = "resolved"
        /\ calls[c].addonGroupIds = <<"g2">>
        /\ LinkedGroups(calls[c].pre.menu_item_addons, calls[c].menuItemId) = {"g1"}
        /\ LinkedGroups(menu_item_addons, calls[c].menuItemId) = {"g2"}
        /\ LinksOfOthers(menu_item_addons, calls[c].menuItemId) # {}

\* the insert failed after the delete: the item that had a link has none
C24_WitnessInsertFailed ==
    \E c \in LinkCalls :
        /\ calls[c].outcome = "rejected" /\ Len(calls[c].log) = 2
        /\ LinkedGroups(calls[c].pre.menu_item_addons, calls[c].menuItemId) # {}
        /\ LinkedGroups(menu_item_addons, calls[c].menuItemId) = {}


FinishedSaves ==
    {c \in Clients : calls[c].op = "saveMenuItemVariants" /\ IsDone(c)
                     /\ calls[c].alone}

VariantsOf(variants, menuItemId) == {v \in variants : v.menu_item_id = menuItemId}

\* C25: a saveMenuItemVariants whose delete failed has made no further store
\* call, has rejected with that error, and the item's variants (the whole
\* table) are what they were; one whose insert failed after the delete
\* succeeded has rejected with the insert's error and the item has no
\* variant, the ones it had are not back.  For calls no other call overlapped.
C25_FailedSaveLeavesOldOrNoVariants ==
    \A c \in FinishedSaves :
        LET call == calls[c]
            item == call.menuItemId
        IN /\ (call.log[1].resp # NoError) =>
                 /\ Len(call.log) = 1
                 /\ call.outcome = "rejected" /\ call.err = call.log[1].resp
                 /\ menu_item_variants = call.pre.menu_item_variants
           /\ (Len(call.log) = 2 /\ call.log[2].resp # NoError) =>
                 /\ call.log[1] = [verb |-> "delete", table |-> "menu_item_variants",
                                   resp |-> NoError]
                 /\ call.log[2].verb = "insert"
                 /\ call.outcome = "rejected" /\ call.err = call.log[2].resp
                 /\ VariantsOf(menu_item_variants, item) = {}
                 /\ menu_item_variants =
                       call.pre.menu_item_variants
                          \ VariantsOf(call.pre.menu_item_variants, item)

\* the insert of a save failed after its delete: the item had variants and
\* has none
C25_Witness ==
    \E c \in FinishedSaves :
        /\ Len(calls[c].log) = 2 /\ calls[c].log[2].resp # NoError
        /\ VariantsOf(calls[c].pre.menu_item_variants, calls[c].menuItemId) # {}
        /\ VariantsOf(menu_item_variants, calls[c].menuItemId) = {}

\* the delete of a save failed: the variants the item had are all there
C25_WitnessDeleteFailed ==
    \E c \in FinishedSaves :
        /\ Len(calls[c].log) = 1 /\ calls[c].log[1].resp # NoError
        /\ Len(calls[c].variants) > 0
        /\ VariantsOf(menu_item_variants, calls[c].menuItemId) # {}


EmptyReads ==
    {c \in Clients : /\ calls[c].op = "getMenuItemVariants"
                     /\ calls[c].outcome = "resolved"
                     /\ calls[c].variants = <<>>
                     /\ VariantsOf(calls[c].pre.menu_item_variants,
                                   calls[c].menuItemId) # {}}

\* C26: a getMenuItemVariants(item) that returns the empty list although the
\* item had variants when the read started has run concurrently with another
\* call; such a read exists beside a saveMenuItemVariants(item, list) of a
\* non-empty list that resolved, with variants of the item in the store
\* before the save started and after it completed (C26_Witness).
C26_EmptyReadOnlyBesideASave ==
    \A c \in EmptyReads : ~calls[c].alone

\* the read returned nothing; the save it ran beside started on an item with
\* a variant, has resolved, and the item has a variant again
C26_Witness ==
    \E c \in EmptyReads : \E d \in Clients \ {c} :
        /\ calls[d].op = "saveMenuItemVariants" /\ calls[d].outcome = "resolved"
        /\ calls[d].menuItemId = calls[c].menuItemId
        /\ Len(calls[d].variants) >= 1
        /\ VariantsOf(calls[d].pre.menu_item_variants, calls[d].menuItemId) # {}
        /\ VariantsOf(menu_item_variants, calls[d].menuItemId) # {}
        /\ calls[c].log = <<[verb |-> "select", table |-> "menu_item_variants",
                             resp |-> NoError]>>


\* the store reads of a call: every store call it has made is a select
StoreReads(call) == Cardinality({i \in 1..Len(call.log) : call.log[i].verb = "select"})

\* C27: a getMenuItems that has resolved with I items and V variants in total
\* has issued 1 + I + V store reads: one for the items, one per item for its
\* variants, one per variant for its groups.
C27_ReadsAreOnePlusItemsPlusVariants ==
    \A c \in GetItemsCalls :
        calls[c].outcome = "resolved" =>
            LET I == Len(calls[c].menuItems)
                V == Cardinality({<<i, j>> \in (1..Len(calls[c].menuItems))
                                               \X (1..MaxVariantId) :
                                     j <= Len(calls[c].menuItems[i].variants)})
            IN StoreReads(calls[c]) = 1 + I + V


\* the number a sequence of digit characters writes
RECURSIVE DigitsValue(_)
DigitsValue(str) ==
    IF str = <<>> THEN 0
    ELSE 10 * DigitsValue(SubSeq(str, 1, Len(str) - 1))
         + (CHOOSE d \in 0..9 : DigitChars[d + 1] = str[Len(str)])

\* C28: the order number of a createOrder is 'ORD' followed by six decimal
\* digits that write the creation time modulo 1,000,000, the row createOrder
\* inserts carries it, and two createOrder calls have the same order number
\* exactly when their creation times are congruent modulo 1,000,000.
C28_OrderNumberIsLastSixDigits ==
    /\ \A c \in CreateCalls :
          LET number == calls[c].orderNumber
          IN /\ Len(number) = 9
             /\ SubSeq(number, 1, 3) = <<"O", "R", "D">>
             /\ DigitsValue(SubSeq(number, 4, 9)) = calls[c].now % 1000000
             /\ \A o \in orders :
                   o.id = calls[c].orderId => o.order_number = number
    /\ \A c, d \in CreateCalls :
          (calls[c].orderNumber = calls[d].orderNumber)
             <=> (calls[c].now % 1000000 = calls[d].now % 1000000)

\* two orders created a million milliseconds apart are stored with the same
\* order number
C28_Witness ==
    \E c, d \in CreateCalls : \E o, q \in orders :
        /\ calls[c].now = calls[d].now + 1000000
        /\ o.id = calls[c].orderId /\ q.id = calls[d].orderId /\ o.id # q.id
        /\ o.order_number = q.order_number
        /\ o.order_number = <<"O", "R", "D", "0", "0", "0", "0", "0", "5">>

\* two orders created one millisecond apart, across a change of the seventh
\* digit, are stored with different order numbers
C28_WitnessDistinct ==
    \E c, d \in CreateCalls : \E o, q \in orders :
        /\ calls[c].now = calls[d].now + 1
        /\ o.id = calls[c].orderId /\ q.id = calls[d].orderId
        /\ o.order_number = <<"O", "R", "D", "0", "0", "0", "0", "0", "0">>
        /\ q.order_number = <<"O", "R", "D", "9", "9", "9", "9", "9", "9">>


\* the deleteOrder calls that resolved and whose order is gone while
\* order_items rows of it are in the store
OrphaningDeletes ==
    {d \in Clients : /\ calls[d].op = "deleteOrder" /\ calls[d].outcome = "resolved"
                     /\ Eq(orders, "id", calls[d].orderId) = {}
                     /\ Eq(order_items, "order_id", calls[d].orderId) # {}}

\* the createOrder that inserted the order of d and, after that, its items
CreatorOf(d) ==
    {c \in Clients : /\ calls[c].op = "createOrder" /\ calls[c].outcome = "resolved"
                     /\ calls[c].orderId = calls[d].orderId
                     /\ Len(calls[c].log) = 2
                     /\ Eq(calls[c].pre.orders, "id", calls[c].orderId) = {}}

C30_SaveDropsVariantGroups ==
    \A c \in FinishedSaves :
        calls[c].outcome = "resolved" =>
            \A v \in VariantsOf(menu_item_variants, calls[c].menuItemId) :
                v.addon_groups = <<>>

\* the groups of a variant of the item were set with updateVariantAddonGroups,
\* then the item was saved with a list that names groups: the item has a
\* variant, the store it was saved on had groups on the item's variant, and no
\* variant of the item has a group
C30_Witness ==
    \E c \in FinishedSaves :
        /\ calls[c].outcome = "resolved"
        /\ \E i \in 1..Len(calls[c].variants) : calls[c].variants[i].addon_groups # <<>>
        /\ VariantsOf(menu_item_variants, calls[c].menuItemId) # {}
        /\ lastUpdate # NoUpdate /\ lastUpdate.matched /\ lastUpdate.groups # <<>>
        /\ \E v \in VariantsOf(calls[c].pre.menu_item_variants, calls[c].menuItemId) :
              v.id = lastUpdate.variant /\ v.addon_groups = lastUpdate.groups
        /\ \A v \in VariantsOf(menu_item_variants, calls[c].menuItemId) :
              v.addon_groups = <<>>


\* the variants whose embedded array names the group
VariantsNaming(variants, groupId) ==
    {v \in variants : groupId \in Elements(v.addon_groups)}

\* C31: no store call of deleteAddonGroup(g) changes a menu_item_addons row or
\* a menu_item_variants row (so no addon_groups array), and when its last
\* call makes it resolve, the group row g is gone while every link and every
\* variant array that named g before the call still does.
C31_DeleteAddonGroupKeepsReferences ==
    [][\A c \in Clients :
          (StoreStep(c) /\ calls[c].op = "deleteAddonGroup") =>
              /\ menu_item_addons' = menu_item_addons
              /\ menu_item_variants' = menu_item_variants
              /\ calls'[c].outcome = "resolved" =>
                    /\ Eq(addon_groups', "id", calls[c].groupId) = {}
                    /\ Eq(menu_item_addons, "addon_group_id", calls[c].groupId)
                          \subseteq menu_item_addons'
                    /\ VariantsNaming(menu_item_variants, calls[c].groupId)
                          \subseteq menu_item_variants'
      ]_vars

\* a group that an item's link and a variant's array name was deleted: the
\* group row is gone, the link and the array still name it
C31_Witness ==
    \E c \in DeleteGroupCalls :
        /\ calls[c].outcome = "resolved"
        /\ Eq(calls[c].pre.addon_groups, "id", calls[c].groupId) # {}
        /\ Eq(addon_groups, "id", calls[c].groupId) = {}
        /\ Eq(menu_item_addons, "addon_group_id", calls[c].groupId) # {}
        /\ VariantsNaming(menu_item_variants, calls[c].groupId) # {}


\* C32: no step of createOrder changes order_item_addons, and a createOrder
\* that no other call overlapped finishes, resolved or rejected, on the
\* order_item_addons table it started on, whatever add-ons its items carry.
C32_CreateOrderWritesNoItemAddons ==
    [][\A c \in Clients :
          (calls[c].op = "createOrder" /\ Running(c) /\ calls'[c] # calls[c]) =>
              /\ order_item_addons' = order_item_addons
              /\ (IsDone(c)' /\ calls'[c].alone) =>
                    order_item_addons' = calls[c].pre.order_item_addons
      ]_vars

\* an order with an item that carries add-ons was created: its item row is in
\* the store and no order_item_addons row belongs to it
C32_Witness ==
    \E c \in CreateCalls :
        /\ calls[c].outcome = "resolved" /\ calls[c].alone
        /\ \E i \in 1..Len(calls[c].orderData.order_items) :
              calls[c].orderData.order_items[i].addons # {}
        /\ \E item \in Eq(order_items, "order_id", calls[c].orderId) :
              Eq(order_item_addons, "order_item_id", item.id) = {}
        /\ order_item_addons = calls[c].pre.order_item_addons
        /\ order_item_addons # {}


\* the deleteAddonGroup calls that resolved and whose group is gone while
\* addons of the group are in the store
OrphaningGroupDeletes ==
    {d \in DeleteGroupCalls :
        /\ calls[d].outcome = "resolved"
        /\ Eq(addon_groups, "id", calls[d].groupId) = {}
        /\ Eq(addons, "addon_group_id", calls[d].groupId) # {}}

\* C33: the state in which deleteAddonGroup(g) and createAddon for g have both
\* resolved and an addons row of g exists without the addon_groups row g is
\* reachable, with the insert of createAddon answered between the two deletes
\* (C33_Witness); whenever addons of g are left behind a resolved
\* deleteAddonGroup(g), none of them was in the store when it started.
C33_LeftAddonsCameAfterTheDeleteStarted ==
    \A d \in OrphaningGroupDeletes :
        Ids(Eq(addons, "addon_group_id", calls[d].groupId))
           \cap Ids(calls[d].pre.addons) = {}

\* createAddon for g was answered when the addons of g were deleted and g was
\* still there; both calls resolved, the new addon is in the store, g is not
C33_Witness ==
    \E d \in OrphaningGroupDeletes : \E c \in Clients \ {d} :
        /\ calls[c].op = "createAddon" /\ calls[c].outcome = "resolved"
        /\ calls[c].addonData.addon_group_id = calls[d].groupId
        /\ calls[c].data \in addons
        /\ Eq(calls[c].seen, "id", calls[d].groupId) # {}
        /\ Eq(calls[d].pre.addons, "addon_group_id", calls[d].groupId) # {}
        /\ Eq(addons, "addon_group_id", calls[d].groupId) = {calls[c].data}


\* the register calls whose sign-up gave a user and whose insert into
\* restaurants failed
HalfRegistered ==
    {c \in Clients :
        /\ calls[c].op = "register" /\ calls[c].pc = "done"
        /\ calls[c].signedUp
        /\ calls[c].log[Len(calls[c].log)].table = "restaurants"
        /\ calls[c].log[Len(calls[c].log)].resp # NoError}

\* C34: register never rejects; when the sign-up succeeded and the insert into
\* restaurants failed it resolves with success = false, the user of the sign-up
\* is still with the identity provider and no restaurants row names that user.
C34_RegisterResolvesAndKeepsTheUser ==
    /\ \A c \in Clients :
          calls[c].op = "register" => calls[c].outcome # "rejected"
    /\ \A c \in HalfRegistered :
          /\ calls[c].outcome = "resolved"
          /\ calls[c].result.success = FALSE
          /\ calls[c].user \in auth_users
          /\ Eq(restaurants, "user_id", calls[c].user.id) = {}

\* a registration that made a user and then failed to insert the restaurant
C34_Witness ==
    \E c \in HalfRegistered :
        /\ calls[c].outcome = "resolved"
        /\ ~calls[c].result.success
        /\ calls[c].user \in auth_users \ Owners
        /\ Eq(restaurants, "user_id", calls[c].user.id) = {}

====
